---- MODULE Spec2Model ----
(***************************************************************************)
(* A model of the EDHREC deck acquisition pipeline of edhrec_backend.py:   *)
(* the rate limiters, the build-id resolver, the deck cache, the deck      *)
(* filter and the parallel deck downloader.                                *)
(*                                                                         *)
(* Time is counted in clock units of 0.04 s, so that both minimum delays   *)
(* of the source (0.80 s and 0.12 s) are whole numbers of units.           *)
(***************************************************************************)
EXTENDS Integers, Sequences, FiniteSets, TLC

VARIABLES
    \* ---- filter_deck_hashes (a static method: its state is its arguments)
    deck_table,     \* the "table" list of the deck table, a sequence of entries
    f_args,         \* the arguments of the call: recent, min_price, max_price
    f_result,       \* the list of hashes returned, None before the call
    f_pc,           \* "ready" before the call, "done" after it
    \* ---- the analyzer object and its cache directory
    last_edhrec_request,    \* self.last_edhrec_request
    build_id,               \* self.build_id: None or the token
    deck_cache,             \* deck_cache/<hash>.json: the content of each file
    \* ---- the remote site: the responses it may give in this run
    server,
    \* ---- the calling program (main thread)
    entry,          \* "main": main(); "api": a caller of fetch_decks_parallel
    run_pc,         \* the statement the main thread is at
    m_wake,         \* the time at which the main thread's rate-limit sleep ends
    deck_hashes,    \* the hash list handed to fetch_decks_parallel
    \* ---- fetch_decks_parallel
    max_workers,    \* size of the ThreadPoolExecutor
    task,           \* one future per submitted hash, with its worker's locals
    collected,      \* the futures as_completed has yielded so far
    all_decks,      \* the list being returned
    \* ---- the card stage: count_cards
    c_pc,           \* the statement the card stage is at, "off" when not modelled
    card_counts,    \* the dict count_cards returns, None before the call
    \* ---- the card stage: group_cards_by_type and the card-type cache
    c_idx,          \* the position of group_cards_by_type's loop in card_counts
    type_groups,    \* the nine dicts being filled, in the order of their labels
    an,             \* the analyzer objects: their scryfall_cache and their call
    scryfall_file,  \* cache/scryfall_cache.json: the content of the file
    \* ---- sequential callers of the build-id resolver and the table fetcher
    b_calls,        \* the calls of fetch_edhrec_build_id made so far
    m_table,        \* the main thread's call of fetch_deck_table
    l_last,         \* the last rate-limit wait a single caller has completed
    yielded         \* the triples the streaming download has yielded so far

filterVars == <<deck_table, f_args, f_result, f_pc>>
analyzerVars == <<last_edhrec_request, build_id, deck_cache>>
mainVars == <<entry, run_pc, m_wake, deck_hashes>>
poolVars == <<max_workers, task, collected, all_decks>>
cardVars == <<c_pc, card_counts, c_idx, type_groups, an, scryfall_file>>
callVars == <<b_calls, m_table, l_last, yielded>>
auxVars == <<cardVars, callVars>>

vars == <<filterVars, analyzerVars, server, auxVars, mainVars, poolVars>>

\* Python values are tagged records; None is the value of that name
None == [t |-> "None"]

Min(a, b) == IF a <= b THEN a ELSE b
Max(a, b) == IF a >= b THEN a ELSE b

(***************************************************************************)
(* Bounds of the model.                                                    *)
(***************************************************************************)
MaxTable == 3       \* longest deck table
MaxPrice == 2       \* prices and price bounds range over 1..MaxPrice
MaxLimit == 3       \* `recent` ranges over -1..MaxLimit

\* savedate strings "YYYY-MM-DD", written as their three number fields
Dates == {<<2023, 12, 31>>, <<2024, 1, 1>>, <<2024, 3, 1>>}
Prices == 1..MaxPrice
Limits == (0 - 1)..MaxLimit

(***************************************************************************)
(* filter_deck_hashes                                                      *)
(***************************************************************************)

\* datetime.strptime(s, "%Y-%m-%d"): the datetime of a date string
strptime(s) == [year |-> s[1], month |-> s[2], day |-> s[3]]

\* datetime comparison a < b
dt_lt(a, b) ==
    \/ a.year < b.year
    \/ a.year = b.year /\ a.month < b.month
    \/ a.year = b.year /\ a.month = b.month /\ a.day < b.day

\* for e in entries: e["savedate_dt"] = strptime(e["savedate"]): every entry
\* of the caller's table gains the key savedate_dt
with_savedate_dt(entries) ==
    [i \in 1..Len(entries) |->
        [k \in DOMAIN entries[i] \cup {"savedate_dt"} |->
            IF k = "savedate_dt" THEN strptime(entries[i]["savedate"])
            ELSE entries[i][k]]]

\* insertion of e into a list sorted by savedate_dt descending, after every
\* element whose key is not smaller (equal keys keep their arrival order)
RECURSIVE insert_desc(_, _)
insert_desc(s, e) ==
    IF s = <<>> THEN <<e>>
    ELSE IF dt_lt(Head(s)["savedate_dt"], e["savedate_dt"]) THEN <<e>> \o s
    ELSE <<Head(s)>> \o insert_desc(Tail(s), e)

\* sorted by savedate_dt ascending: the sort without reverse=True
RECURSIVE insert_asc(_, _)
insert_asc(s, e) ==
    IF s = <<>> THEN <<e>>
    ELSE IF dt_lt(e["savedate_dt"], Head(s)["savedate_dt"]) THEN <<e>> \o s
    ELSE <<Head(s)>> \o insert_asc(Tail(s), e)

RECURSIVE sorted_asc(_)
sorted_asc(entries) ==
    IF entries = <<>> THEN <<>>
    ELSE insert_asc(sorted_asc(SubSeq(entries, 1, Len(entries) - 1)),
                    entries[Len(entries)])

\* sorted(entries, key=lambda e: e["savedate_dt"], reverse=True): a stable
\* sort, descending, equal keys in their original order
RECURSIVE sorted_desc(_)
sorted_desc(entries) ==
    IF entries = <<>> THEN <<>>
    ELSE insert_desc(sorted_desc(SubSeq(entries, 1, Len(entries) - 1)),
                     entries[Len(entries)])

\* [e for e in s if min_price <= e["price"] <= max_price]
price_filter(s, min_price, max_price) ==
    SelectSeq(s, LAMBDA e : min_price <= e["price"] /\ e["price"] <= max_price)

\* the Python slice s[:n]: the first n elements, and for a negative n all
\* but the last -n
slice_to(s, n) ==
    IF n >= 0 THEN SubSeq(s, 1, Min(n, Len(s)))
    ELSE SubSeq(s, 1, Max(0, Len(s) + n))

urlhashes(s) == [i \in 1..Len(s) |-> s[i]["urlhash"]]

\* a filter that slices before it filters on price
filter_limit_first(entries, recent, min_price, max_price) ==
    urlhashes(price_filter(slice_to(sorted_desc(with_savedate_dt(entries)), recent),
                           min_price, max_price))

\* a filter that forgets the upper price bound
filter_no_max(entries, recent, min_price, max_price) ==
    urlhashes(slice_to(price_filter(sorted_desc(with_savedate_dt(entries)),
                                    min_price, MaxPrice + 1), recent))

\* a filter that sorts ascending
filter_ascending(entries, recent, min_price, max_price) ==
    urlhashes(slice_to(price_filter(sorted_asc(with_savedate_dt(entries)),
                                    min_price, max_price), recent))

\* the value filter_deck_hashes returns
filter_deck_hashes_value(entries, recent, min_price, max_price) ==
    urlhashes(slice_to(price_filter(sorted_desc(with_savedate_dt(entries)),
                                    min_price, max_price), recent))

\* the call filter_deck_hashes(deck_table, recent, min_price, max_price)
filter_deck_hashes ==
    /\ f_pc = "ready"
    /\ \E recent \in Limits, min_price \in Prices, max_price \in Prices :
        /\ f_args' = [recent |-> recent, min_price |-> min_price,
                      max_price |-> max_price]
        /\ deck_table' = with_savedate_dt(deck_table)
        /\ f_result' = filter_deck_hashes_value(deck_table, recent,
                                                min_price, max_price)
    /\ f_pc' = "done"
    /\ UNCHANGED <<analyzerVars, server, auxVars, mainVars, poolVars>>

(***************************************************************************)
(* Python values, JSON texts and HTTP responses                            *)
(***************************************************************************)
PyList(s) == [t |-> "list", v |-> s]
PyStr(s) == [t |-> "str", v |-> s]
PyDict(f) == [t |-> "dict", v |-> f]
PyExc(name) == [t |-> "exc", v |-> name]

\* bool(x) of a Python value: None, "", [] and {} are false
truthy(x) ==
    /\ x.t # "None"
    /\ x.t \in {"list", "str"} => x.v # <<>>
    /\ x.t = "dict" => DOMAIN x.v # {}

\* Python s.find(c, start): the least index >= start holding c, else -1
\* (indices count from 0)
py_find(s, c, start) ==
    LET hits == {i \in (start + 1)..Len(s) : s[i] = c}
    IN  IF hits = {} THEN 0 - 1
        ELSE (CHOOSE i \in hits : \A j \in hits : i <= j) - 1

\* Python s.rfind(c): the greatest index holding c, else -1
py_rfind(s, c) ==
    LET hits == {i \in 1..Len(s) : s[i] = c}
    IN  IF hits = {} THEN 0 - 1
        ELSE (CHOOSE i \in hits : \A j \in hits : i >= j) - 1

\* Python s[a:b] for a >= 0; a negative b counts from the end
py_slice(s, a, b) ==
    LET hi == IF b < 0 THEN Max(Len(s) + b, 0) ELSE Min(b, Len(s))
    IN  IF a >= hi THEN <<>> ELSE SubSeq(s, a + 1, hi)

\* a file of the cache directory: absent, or its text
NoFile == [exists |-> FALSE, text |-> <<>>]
File(text) == [exists |-> TRUE, text |-> text]

\* json.dump(deck, f, indent=2) of a list of strings (or of None): the text
json_dump(x) ==
    IF x.t = "None" THEN <<"null">> ELSE <<"[">> \o x.v \o <<"]">>

\* what a file holds after a writer that opened it with "w" has written
\* text at its own position 0: the text, and beyond its end whatever another
\* writer has put there since this writer's open emptied the file
written(old, text) == text \o SubSeq(old, Len(text) + 1, Len(old))

\* json.load(f): the value of a text, or the exception it raises (one value
\* is expected; a bracket left over behind it is extra data)
json_load(text) ==
    IF text = <<"null">> THEN [ok |-> TRUE, v |-> None]
    ELSE IF /\ Len(text) >= 2 /\ text[1] = "[" /\ text[Len(text)] = "]"
            /\ \A k \in 2..(Len(text) - 1) : text[k] \notin {"[", "]"}
    THEN [ok |-> TRUE, v |-> PyList(SubSeq(text, 2, Len(text) - 1))]
    ELSE [ok |-> FALSE, v |-> PyExc("JSONDecodeError")]

\* x[k] of a Python value with a string key: the value, or KeyError on a
\* dict without the key, or TypeError on None, a list or a string
subscript(x, k) ==
    IF x.t = "dict"
    THEN IF k \in DOMAIN x.v THEN [ok |-> TRUE, v |-> x.v[k]]
         ELSE [ok |-> FALSE, v |-> PyExc("KeyError")]
    ELSE [ok |-> FALSE, v |-> PyExc("TypeError")]

\* the body of a response: a text that is no JSON, or the value r.json() gives
NotJson == [t |-> "not_json"]

\* r.json()["pageProps"]["data"]["deck"]
deck_of_body(body) ==
    IF body.t = "not_json" THEN [ok |-> FALSE, v |-> PyExc("JSONDecodeError")]
    ELSE LET a == subscript(body, "pageProps")
         IN  IF ~a.ok THEN a
             ELSE LET b == subscript(a.v, "data")
                  IN  IF ~b.ok THEN b ELSE subscript(b.v, "deck")

(***************************************************************************)
(* Program constants                                                       *)
(***************************************************************************)
EDHREC_MIN_DELAY == 20      \* self.EDHREC_MIN_DELAY = 0.80 s
SCRYFALL_MIN_DELAY == 3     \* self.SCRYFALL_MIN_DELAY = 0.12 s
SCRIPT_EDHREC_MIN_DELAY == 10   \* EDHREC_MIN_DELAY = 0.40 s of the script
PoolCap == 5                \* min(5, len(deck_hashes))
HTTP_OK == 200              \* r.status_code != 200
MinBuildIdLen == 5          \* len(build_id) < 5

\* Only differences of clock readings are ever used, so time is measured in
\* the frame that moves with the clock: time.time() always reads `now`, and
\* the passing of time (Tick) moves every stored reading into the past.
\* The initial timestamp 0 is a full minimum delay ago, as any older one.
now == EDHREC_MIN_DELAY
\* the clock is read at multiples of half the minimum delay
ClockStep == EDHREC_MIN_DELAY \div 2

(***************************************************************************)
(* The remote site                                                         *)
(***************************************************************************)
\* The homepage is a sequence of characters, with "S" standing for the text
\* "/_next/static/" and "M" for "_buildManifest.js".
GoodId == <<"a", "b", "c", "d", "e">>
GoodPage == <<"x", "S">> \o GoodId \o <<"/", "M", "x">>
NoMarkerPage == <<"x", "S">> \o GoodId \o <<"/", "x">>

Response(status, body) == [status |-> status, body |-> body]

RootResponses ==
    {Response(500, <<>>), Response(HTTP_OK, GoodPage), Response(HTTP_OK, NoMarkerPage)}

\* the deck body served for a hash, and the empty deck
SolRing == <<"1 Sol Ring">>
DeckBody(d) == PyDict([pageProps |-> PyDict([data |-> PyDict([deck |-> PyList(d)])])])

DeckResponses ==
    {Response(404, NotJson),                                \* non-success status
     Response(HTTP_OK, NotJson),                            \* not valid JSON
     Response(HTTP_OK, PyDict([pageProps |-> PyDict(<<>>)])),   \* path lacking
     Response(HTTP_OK, PyDict([pageProps |-> None])),       \* step not an object
     Response(HTTP_OK, DeckBody(<<>>)),                     \* an empty deck
     Response(HTTP_OK, DeckBody(SolRing))}

(***************************************************************************)
(* fetch_edhrec_build_id, lines 87-113: from the response to the build id  *)
(***************************************************************************)
build_id_from(r) ==
    IF r.status # HTTP_OK
    THEN [ok |-> FALSE, v |-> PyExc("Failed to load EDHREC homepage")]
    ELSE LET html == r.body
             idx == py_find(html, "M", 0)
         IN  IF idx = 0 - 1
             THEN [ok |-> FALSE, v |-> PyExc("Could not find _buildManifest.js")]
             ELSE LET prefix == py_slice(html, 0, idx)
                      static_idx == py_rfind(prefix, "S")
                  IN  IF static_idx = 0 - 1
                      THEN [ok |-> FALSE, v |-> PyExc("Could not locate /_next/static/")]
                      ELSE LET start == static_idx + 1
                               end == py_find(prefix, "/", start)
                               bid == py_slice(prefix, start, end)
                           IN  IF bid = <<>> \/ Len(bid) < MinBuildIdLen
                               THEN [ok |-> FALSE, v |-> PyExc("Extracted invalid EDHREC build ID")]
                               ELSE [ok |-> TRUE, v |-> PyStr(bid)]

(***************************************************************************)
(* The deck cache                                                          *)
(***************************************************************************)
\* a variant without the try block: the exception is handed on
load_deck_from_cache_unguarded(deck_id) ==
    IF deck_cache[deck_id].exists
    THEN json_load(deck_cache[deck_id].text).v
    ELSE None

\* load_deck_from_cache(deck_id)
load_deck_from_cache(deck_id) ==
    IF deck_cache[deck_id].exists
    THEN LET res == json_load(deck_cache[deck_id].text)
         IN  IF res.ok THEN res.v ELSE None
    ELSE None

(***************************************************************************)
(* The rate limiter                                                        *)
(***************************************************************************)
\* the minimum delay between EDHREC requests: that of the analyzer, or that
\* of the standalone script when its functions are the ones running
min_delay ==
    IF entry = "script" THEN SCRIPT_EDHREC_MIN_DELAY ELSE EDHREC_MIN_DELAY

\* a variant that does not sleep
edhrec_wake_nosleep == now

\* rate_limit_edhrec, lines 55-57: the elapsed time is measured and the
\* caller sleeps until this time (now itself when no sleep is needed)
edhrec_wake ==
    LET elapsed == now - last_edhrec_request
    IN  IF elapsed < min_delay THEN now + (min_delay - elapsed)
        ELSE now

(***************************************************************************)
(* Worker threads: fetch_deck_by_hash run by the pool                      *)
(***************************************************************************)
NoResponse == Response(0, NotJson)
Pending == [kind |-> "pending", v |-> None]
Returned(x) == [kind |-> "returned", v |-> x]
Raised(e) == [kind |-> "raised", v |-> e]

\* a future just submitted, with the locals of the worker that will run it:
\* wake (the end of its rate-limit sleep), seen (the cache file as it read
\* it), r (the deck-detail response), deck (the deck parsed from it), and
\* what it has sent: roots (its homepage requests) and url_bid (the build id
\* in the URL of its deck-detail request)
NewTask ==
    [pc |-> "queued", wake |-> 0, seen |-> NoFile, r |-> NoResponse,
     deck |-> None, outcome |-> Pending, roots |-> 0, url_bid |-> None]

\* the worker threads that are running a call
Busy == Cardinality({i \in DOMAIN task : task[i].pc \notin {"queued", "done"}})

\* a pool whose size is the number of hashes
max_workers_uncapped(n) == n

\* max_workers = min(5, len(deck_hashes))
max_workers_for(n) == Min(PoolCap, n)

\* A free worker takes the oldest queued call and runs fetch_deck_by_hash up
\* to the test of the build id, lines 194-198:
\*   cached = load_deck_from_cache(deck_id); if cached: return cached
\*   if not self.build_id: self.fetch_edhrec_build_id()
\* (a build id stored between the two reads is seen by the test that opens
\* fetch_edhrec_build_id, which then returns at once)
FetchStart(i) ==
    /\ run_pc = "collect"
    /\ task[i].pc = "queued"
    /\ \A j \in 1..(i - 1) : task[j].pc # "queued"
    /\ Busy < max_workers
    /\ LET cached == load_deck_from_cache(deck_hashes[i])
       IN  task' = [task EXCEPT ![i] =
                IF truthy(cached)
                THEN [@ EXCEPT !.pc = "done",
                               !.seen = deck_cache[deck_hashes[i]],
                               !.outcome = Returned(cached)]
                ELSE [@ EXCEPT !.pc = IF truthy(build_id) THEN "rl"
                                      ELSE "bid_enter",
                               !.seen = deck_cache[deck_hashes[i]]]]
    /\ UNCHANGED <<filterVars, analyzerVars, server, auxVars, mainVars,
                   max_workers, collected, all_decks>>

\* fetch_edhrec_build_id: if self.build_id: return self.build_id
BidEnter(i) ==
    /\ task[i].pc = "bid_enter"
    /\ task' = [task EXCEPT ![i].pc =
                    IF truthy(build_id) THEN "rl" ELSE "bid_rl"]
    /\ UNCHANGED <<filterVars, analyzerVars, server, auxVars, mainVars,
                   max_workers, collected, all_decks>>

\* rate_limit_edhrec inside fetch_edhrec_build_id: elapsed is measured
BidRlRead(i) ==
    /\ task[i].pc = "bid_rl"
    /\ task' = [task EXCEPT ![i].pc = "bid_sleep", ![i].wake = edhrec_wake]
    /\ UNCHANGED <<filterVars, analyzerVars, server, auxVars, mainVars,
                   max_workers, collected, all_decks>>

\* the sleep is over: self.last_edhrec_request = time.time(), and the GET of
\* the homepage is sent
BidRlStamp(i) ==
    /\ task[i].pc = "bid_sleep"
    /\ now >= task[i].wake
    /\ last_edhrec_request' = now
    /\ task' = [task EXCEPT ![i].pc = "bid_get", ![i].wake = 0,
                            ![i].roots = @ + 1]
    /\ UNCHANGED <<filterVars, build_id, deck_cache, server, auxVars, mainVars,
                   max_workers, collected, all_decks>>

\* the homepage response arrives: the build id is stored, or the exception
\* leaves fetch_edhrec_build_id and fetch_deck_by_hash
BidResponse(i) ==
    /\ task[i].pc = "bid_get"
    /\ \E r \in server.root :
        LET res == build_id_from(r)
        IN  IF res.ok
            THEN /\ build_id' = res.v
                 /\ task' = [task EXCEPT ![i].pc = "rl"]
            ELSE /\ build_id' = build_id
                 /\ task' = [task EXCEPT ![i].pc = "done",
                                         ![i].outcome = Raised(res.v)]
    /\ UNCHANGED <<filterVars, last_edhrec_request, deck_cache, server, auxVars,
                   mainVars, max_workers, collected, all_decks>>

\* rate_limit_edhrec before the deck-detail request: elapsed is measured
RlRead(i) ==
    /\ task[i].pc = "rl"
    /\ task' = [task EXCEPT ![i].pc = "rl_sleep", ![i].wake = edhrec_wake]
    /\ UNCHANGED <<filterVars, analyzerVars, server, auxVars, mainVars,
                   max_workers, collected, all_decks>>

\* the sleep is over: the timestamp is written and the deck-detail GET sent
RlStamp(i) ==
    /\ task[i].pc = "rl_sleep"
    /\ now >= task[i].wake
    /\ last_edhrec_request' = now
    /\ task' = [task EXCEPT ![i].pc = "get", ![i].wake = 0,
                            ![i].url_bid = build_id]
    /\ UNCHANGED <<filterVars, build_id, deck_cache, server, auxVars, mainVars,
                   max_workers, collected, all_decks>>

\* the deck-detail response arrives, lines 205-215: a status other than 200
\* and a KeyError return None, any other exception leaves the call, and a
\* deck opens its cache file for writing (which empties the file)
DeckResponse(i) ==
    /\ task[i].pc = "get"
    /\ \E r \in server.deck :
        LET res == deck_of_body(r.body)
        IN  IF r.status # HTTP_OK
            THEN /\ task' = [task EXCEPT ![i].pc = "done", ![i].r = r,
                                         ![i].outcome = Returned(None)]
                 /\ deck_cache' = deck_cache
            ELSE IF res.ok
            THEN /\ task' = [task EXCEPT ![i].pc = "save", ![i].r = r,
                                         ![i].deck = res.v]
                 /\ deck_cache' = [deck_cache EXCEPT ![deck_hashes[i]] = File(<<>>)]
            ELSE /\ task' = [task EXCEPT ![i].pc = "done", ![i].r = r,
                                ![i].outcome =
                                    IF res.v = PyExc("KeyError")
                                    THEN Returned(None) ELSE Raised(res.v)]
                 /\ deck_cache' = deck_cache
    /\ UNCHANGED <<filterVars, last_edhrec_request, build_id, server, auxVars,
                   mainVars, max_workers, collected, all_decks>>

\* a variant that returns the deck and leaves the file as it was opened
SaveDeck_unwritten(i) ==
    /\ task[i].pc = "save"
    /\ task' = [task EXCEPT ![i].pc = "done",
                            ![i].outcome = Returned(task[i].deck)]
    /\ UNCHANGED <<filterVars, analyzerVars, server, auxVars, mainVars,
                   max_workers, collected, all_decks>>

\* save_deck_to_cache writes the deck and closes the file; return deck
SaveDeck(i) ==
    /\ task[i].pc = "save"
    /\ deck_cache' = [deck_cache EXCEPT
                        ![deck_hashes[i]] =
                            File(written(@.text, json_dump(task[i].deck)))]
    /\ task' = [task EXCEPT ![i].pc = "done",
                            ![i].outcome = Returned(task[i].deck)]
    /\ UNCHANGED <<filterVars, last_edhrec_request, build_id, server, auxVars,
                   mainVars, max_workers, collected, all_decks>>

(***************************************************************************)
(* fetch_decks_parallel, on the main thread                                *)
(***************************************************************************)
\* lines 223-233: an empty list returns at once; otherwise the pool is made
\* and one call per list position is submitted
FdpCall ==
    /\ run_pc = "fdp_call"
    /\ all_decks' = <<>>
    /\ collected' = {}
    /\ IF deck_hashes = <<>>
       THEN /\ run_pc' = "save_decklists"
            /\ UNCHANGED <<max_workers, task>>
       ELSE /\ run_pc' = "collect"
            /\ max_workers' = max_workers_for(Len(deck_hashes))
            /\ task' = [i \in 1..Len(deck_hashes) |-> NewTask]
    /\ UNCHANGED <<filterVars, analyzerVars, server, auxVars, entry, m_wake, deck_hashes>>

\* a variant whose loop is handed only the futures that returned a value
Collect_returned_only(i) ==
    /\ run_pc = "collect"
    /\ task[i].pc = "done"
    /\ task[i].outcome.kind = "returned"
    /\ i \notin collected
    /\ collected' = collected \cup {i}
    /\ all_decks' =
        IF truthy(task[i].outcome.v)
        THEN Append(all_decks, task[i].outcome.v)
        ELSE all_decks
    /\ UNCHANGED <<filterVars, analyzerVars, server, auxVars, mainVars, max_workers, task>>

\* lines 235-242: as_completed yields a finished future; a truthy result is
\* appended, an exception is printed
Collect(i) ==
    /\ run_pc = "collect"
    /\ task[i].pc = "done"
    /\ i \notin collected
    /\ collected' = collected \cup {i}
    /\ all_decks' =
        IF task[i].outcome.kind = "returned" /\ truthy(task[i].outcome.v)
        THEN Append(all_decks, task[i].outcome.v)
        ELSE all_decks
    /\ UNCHANGED <<filterVars, analyzerVars, server, auxVars, mainVars, max_workers, task>>

\* line 244: every future was yielded, the pool is shut down, return all_decks
FdpReturn ==
    /\ run_pc = "collect"
    /\ collected = DOMAIN task
    /\ run_pc' = "save_decklists"
    /\ UNCHANGED <<filterVars, analyzerVars, server, auxVars, entry, m_wake,
                   deck_hashes, poolVars>>

(***************************************************************************)
(* main(), lines 511-531, on the main thread                               *)
(***************************************************************************)
\* line 511, fetch_edhrec_build_id: no build id is stored yet, so the rate
\* limiter measures elapsed
MainBidRlRead ==
    /\ run_pc = "bid_rl"
    /\ m_wake' = edhrec_wake
    /\ run_pc' = "bid_sleep"
    /\ UNCHANGED <<filterVars, analyzerVars, server, auxVars, entry, deck_hashes, poolVars>>

MainBidRlStamp ==
    /\ run_pc = "bid_sleep"
    /\ now >= m_wake
    /\ last_edhrec_request' = now
    /\ run_pc' = "bid_get"
    /\ m_wake' = 0
    /\ UNCHANGED <<filterVars, build_id, deck_cache, server, auxVars, entry,
                   deck_hashes, poolVars>>

\* the homepage response: the build id is stored, or the exception ends main
MainBidResponse ==
    /\ run_pc = "bid_get"
    /\ \E r \in server.root :
        LET res == build_id_from(r)
        IN  IF res.ok
            THEN build_id' = res.v /\ run_pc' = "tab_rl"
            ELSE build_id' = build_id /\ run_pc' = "aborted"
    /\ UNCHANGED <<filterVars, last_edhrec_request, deck_cache, server, auxVars,
                   entry, m_wake, deck_hashes, poolVars>>

\* raise Exception(f"Failed to fetch deck table: HTTP {r.status_code}")
FetchError(status) ==
    [t |-> "exc", v |-> "Failed to fetch deck table: HTTP", status |-> status]

\* a variant without the status test
table_outcome_lenient(r) ==
    IF r.body.t = "not_json" THEN Raised(PyExc("JSONDecodeError"))
    ELSE Returned(r.body)

\* lines 144-147: the status test, then r.json(), which raises on a body
\* that is no JSON
table_outcome(r) ==
    IF r.status # HTTP_OK THEN Raised(FetchError(r.status))
    ELSE IF r.body.t = "not_json" THEN Raised(PyExc("JSONDecodeError"))
    ELSE Returned(r.body)

\* the deck table the site serves for the commander
TableBody(hashes) == PyDict([table |-> PyList(hashes)])

\* line 513, fetch_deck_table: rate_limit_edhrec, then the GET
MainTableRlRead ==
    /\ run_pc = "tab_rl"
    /\ m_wake' = edhrec_wake
    /\ run_pc' = "tab_sleep"
    /\ UNCHANGED <<filterVars, analyzerVars, server, auxVars, entry, deck_hashes, poolVars>>

MainTableRlStamp ==
    /\ run_pc = "tab_sleep"
    /\ now >= m_wake
    /\ last_edhrec_request' = now
    /\ run_pc' = "tab_get"
    /\ m_wake' = 0
    /\ m_table' = [m_table EXCEPT !.waits = @ + 1]
    /\ UNCHANGED <<filterVars, build_id, deck_cache, server, cardVars, b_calls,
                   l_last, yielded, entry, deck_hashes, poolVars>>

\* the deck-table response: a status other than 200 raises and ends main;
\* otherwise line 515 filters the table into deck_hashes
MainTableResponse ==
    /\ run_pc = "tab_get"
    /\ \E r \in server.table :
        /\ m_table' = [m_table EXCEPT !.gets = @ + 1, !.r = r,
                                      !.outcome = table_outcome(r)]
        /\ run_pc' = IF table_outcome(r).kind = "raised" THEN "aborted"
                     ELSE "fdp_call"
    /\ UNCHANGED <<filterVars, analyzerVars, server, cardVars, b_calls, l_last,
                   yielded, entry, m_wake, deck_hashes, poolVars>>

\* line 524: the decklists report is written
save_decklists ==
    /\ run_pc = "save_decklists"
    /\ run_pc' = "save_master"
    /\ UNCHANGED <<filterVars, analyzerVars, server, auxVars, entry, m_wake,
                   deck_hashes, poolVars>>

\* lines 527-528: count_cards, and the master report is written
save_master_cardcount ==
    /\ run_pc = "save_master"
    /\ run_pc' = "classify"
    /\ UNCHANGED <<filterVars, analyzerVars, server, auxVars, entry, m_wake,
                   deck_hashes, poolVars>>

\* line 530: the card types are looked up, card by card
group_cards_by_type ==
    /\ run_pc = "classify"
    /\ run_pc' = "save_cardtypes"
    /\ UNCHANGED <<filterVars, analyzerVars, server, auxVars, entry, m_wake,
                   deck_hashes, poolVars>>

\* line 531: the per-type reports are written
save_cardtypes ==
    /\ run_pc = "save_cardtypes"
    /\ run_pc' = "finished"
    /\ UNCHANGED <<filterVars, analyzerVars, server, auxVars, entry, m_wake,
                   deck_hashes, poolVars>>

(***************************************************************************)
(* The clock                                                               *)
(***************************************************************************)
\* a caller that has yet to read the clock: it has not written its timestamp
BeforeStamp(i) ==
    task[i].pc \in {"queued", "bid_enter", "bid_rl", "bid_sleep",
                    "bid_get", "rl", "rl_sleep"}
MainBeforeStamp ==
    run_pc \in {"bid_rl", "bid_sleep", "bid_get", "tab_rl", "tab_sleep",
                "tab_get", "fdp_call"}
Sleeping(i) == task[i].pc \in {"bid_sleep", "rl_sleep"}

\* Time passes by one step: every stored clock reading is one step older. A
\* timestamp older than the minimum delay, and a wake-up time in the past,
\* behave as one that is exactly that old, and are kept at that value. Time
\* that nobody can observe is not modelled: some caller has yet to read the
\* clock, and the last request is less than the minimum delay ago or a
\* caller sleeps.
Tick ==
    /\ MainBeforeStamp \/ \E i \in DOMAIN task : BeforeStamp(i)
    /\ \/ now < last_edhrec_request + EDHREC_MIN_DELAY
       \/ \E i \in DOMAIN task : Sleeping(i) /\ task[i].wake > now
       \/ run_pc \in {"bid_sleep", "tab_sleep"} /\ m_wake > now
    /\ last_edhrec_request' =
            Max(last_edhrec_request - ClockStep, now - EDHREC_MIN_DELAY)
    /\ task' = [i \in DOMAIN task |->
                    IF Sleeping(i)
                    THEN [task[i] EXCEPT !.wake = Max(@ - ClockStep, now)]
                    ELSE task[i]]
    /\ m_wake' = IF run_pc \in {"bid_sleep", "tab_sleep"}
                 THEN Max(m_wake - ClockStep, now) ELSE m_wake
    /\ UNCHANGED <<filterVars, build_id, deck_cache, server, auxVars, entry, run_pc,
                   deck_hashes, max_workers, collected, all_decks>>

\* the deck tables: entry i carries the i-th hash; dates and prices are free
Entries(i) == [urlhash : {i}, savedate : Dates, price : Prices]
Tables ==
    UNION {{t \in [1..n -> UNION {Entries(i) : i \in 1..n}] :
                \A i \in 1..n : t[i]["urlhash"] = i} : n \in 0..MaxTable}

\* no call of filter_deck_hashes is modelled
IdleFilter ==
    /\ deck_table = <<>>
    /\ f_args = None
    /\ f_result = None
    /\ f_pc = "off"

\* the analyzer objects that may exist at one time (processes sharing the
\* cache directory), and how often each may be constructed
NumAnalyzers == 2
MaxRuns == 2
Analyzers == 1..NumAnalyzers
\* no such object: the process has not started, or has ended
NoAnalyzer ==
    [pc |-> "none", scryfall_cache |-> <<>>, last_scryfall_request |-> 0,
     card_name |-> <<>>, ret |-> <<>>, loaded |-> NoFile, owes |-> {}, runs |-> 0]

\* no call of fetch_deck_table has been made
NoCall == [waits |-> 0, gets |-> 0, r |-> NoResponse, outcome |-> Pending]

\* the card lookups are not modelled
IdleLookups ==
    /\ c_idx = 0
    /\ type_groups = None
    /\ an = [a \in Analyzers |-> NoAnalyzer]
    /\ scryfall_file = NoFile

\* no rate-limit wait has been completed
NoWait == [service |-> "none", slept |-> FALSE]

\* no sequential caller is modelled
IdleCalls ==
    /\ b_calls = <<>>
    /\ m_table = NoCall
    /\ l_last = NoWait
    /\ yielded = <<>>

\* the card stage is not modelled
IdleCards ==
    /\ c_pc = "off"
    /\ card_counts = None
    /\ IdleLookups
    /\ IdleCalls

\* a fresh analyzer (__init__), an idle main thread and no pool
FreshAnalyzer ==
    /\ last_edhrec_request = 0
    /\ build_id = None
    /\ m_wake = 0
    /\ max_workers = 0
    /\ task = <<>>
    /\ collected = {}
    /\ all_decks = <<>>

InitFilter ==
    /\ deck_table \in Tables
    /\ f_args = None
    /\ f_result = None
    /\ f_pc = "ready"
    /\ IdleCards
    /\ FreshAnalyzer
    /\ deck_cache = <<>>
    /\ server = [root |-> {}, table |-> {}, deck |-> {}, card |-> {}]
    /\ entry = "api"
    /\ run_pc = "off"
    /\ deck_hashes = <<>>

NextFilter == filter_deck_hashes

SpecFilter == InitFilter /\ [][NextFilter]_vars

(***************************************************************************)
(* Spec: one run of the pipeline, from main() or from a caller of the      *)
(* module-level fetch_decks_parallel, against any behaviour of the site    *)
(***************************************************************************)
MaxHashes == 2      \* longest hash list, and the number of hashes

Hashes == 1..MaxHashes
\* the hash lists, hashes named in the order of their first occurrence
HashLists ==
    UNION {{l \in [1..n -> Hashes] :
                \A i \in 1..n : l[i] = 1 \/ \E j \in 1..(i - 1) : l[j] >= l[i] - 1}
           : n \in 0..MaxHashes}
HashesOf(l) == {l[i] : i \in 1..Len(l)}

\* what a cache file left by an earlier run may hold: nothing, a text cut
\* short, an empty deck, a deck
CacheFiles ==
    {NoFile, File(<<"[">>), File(json_dump(PyList(<<>>))),
     File(json_dump(PyList(SolRing)))}

Init ==
    /\ IdleFilter
    /\ IdleCards
    /\ FreshAnalyzer
    /\ deck_hashes \in HashLists
    /\ deck_cache \in [HashesOf(deck_hashes) -> CacheFiles]
    /\ server = [root |-> RootResponses,
                 table |-> {Response(HTTP_OK, TableBody(deck_hashes)),
                            Response(HTTP_OK, NotJson),
                            Response(404, NotJson)},
                 deck |-> DeckResponses, card |-> {}]
    /\ entry \in {"main", "api"}
    /\ run_pc = IF entry = "main" THEN "bid_rl" ELSE "fdp_call"

Worker(i) ==
    \/ FetchStart(i)
    \/ BidEnter(i)
    \/ BidRlRead(i)
    \/ BidRlStamp(i)
    \/ BidResponse(i)
    \/ RlRead(i)
    \/ RlStamp(i)
    \/ DeckResponse(i)
    \/ SaveDeck(i)

Next ==
    \/ MainBidRlRead
    \/ MainBidRlStamp
    \/ MainBidResponse
    \/ MainTableRlRead
    \/ MainTableRlStamp
    \/ MainTableResponse
    \/ FdpCall
    \/ \E i \in DOMAIN task : Worker(i)
    \/ \E i \in DOMAIN task : Collect(i)
    \/ FdpReturn
    \/ save_decklists
    \/ save_master_cardcount
    \/ group_cards_by_type
    \/ save_cardtypes
    \/ Tick

Spec == Init /\ [][Next]_vars

\* The scheduling the run relies on: every worker thread that can take a
\* step eventually takes it (the operating system schedules the threads, and
\* every request is answered), as_completed hands every finished future to
\* the loop, the main thread goes on, and time passes for the sleepers.
Fairness ==
    /\ \A i \in 1..MaxHashes : WF_vars(i \in DOMAIN task /\ Worker(i))
    /\ \A i \in 1..MaxHashes : WF_vars(i \in DOMAIN task /\ Collect(i))
    /\ WF_vars(FdpCall)
    /\ WF_vars(FdpReturn)
    /\ WF_vars(Tick)

SpecFair == Spec /\ Fairness

(***************************************************************************)
(* SpecPool: fetch_decks_parallel over more hashes than the pool has       *)
(* workers, the build id resolved before (as main() does at line 511), no  *)
(* deck cached and every deck served                                       *)
(***************************************************************************)
\* the lengths of the hash list: below the cap, and one above it
PoolLengths == {2, PoolCap + 1}

InitPool ==
    /\ IdleFilter
    /\ IdleCards
    /\ last_edhrec_request = now
    /\ build_id = PyStr(GoodId)
    /\ m_wake = 0
    /\ max_workers = 0
    /\ task = <<>>
    /\ collected = {}
    /\ all_decks = <<>>
    /\ \E n \in PoolLengths : deck_hashes = [i \in 1..n |-> i]
    /\ deck_cache = [h \in HashesOf(deck_hashes) |-> NoFile]
    /\ server = [root |-> {}, table |-> {},
                 deck |-> {Response(HTTP_OK, DeckBody(SolRing))}, card |-> {}]
    /\ entry = "api"
    /\ run_pc = "fdp_call"

PoolWorker(i) ==
    \/ FetchStart(i)
    \/ RlRead(i)
    \/ RlStamp(i)
    \/ DeckResponse(i)
    \/ SaveDeck(i)

NextPool ==
    \/ FdpCall
    \/ \E i \in DOMAIN task : PoolWorker(i)
    \/ \E i \in DOMAIN task : Collect(i)
    \/ FdpReturn
    \/ Tick

SpecPool == InitPool /\ [][NextPool]_vars

(***************************************************************************)
(* count_cards.  A deck is a sequence of lines and a line is a sequence of *)
(* characters; a dict is the sequence of its <<key, value>> items in       *)
(* insertion order.                                                        *)
(***************************************************************************)
Digits == <<"0", "1", "2", "3", "4", "5", "6", "7", "8", "9">>
IsDigit(c) == \E k \in 1..Len(Digits) : Digits[k] = c
digit_value(c) == (CHOOSE k \in 1..Len(Digits) : Digits[k] = c) - 1

RECURSIVE digits_value(_)
digits_value(s) ==
    IF s = <<>> THEN 0
    ELSE 10 * digits_value(SubSeq(s, 1, Len(s) - 1)) + digit_value(s[Len(s)])

\* int(s) for a str without blanks: an optional sign and at least one
\* digit, ValueError otherwise
int(s) ==
    LET signed == s # <<>> /\ s[1] \in {"-", "+"}
        body   == IF signed THEN Tail(s) ELSE s
    IN IF body # <<>> /\ \A k \in 1..Len(body) : IsDigit(body[k])
       THEN [ok |-> TRUE,
             v  |-> IF signed /\ s[1] = "-" THEN 0 - digits_value(body)
                    ELSE digits_value(body)]
       ELSE [ok |-> FALSE, v |-> PyExc("ValueError")]

\* a variant: line.rsplit(" ", 1)
rsplit1(line) ==
    LET idx == py_rfind(line, " ")
    IN IF idx = 0 - 1 THEN <<line>>
       ELSE <<py_slice(line, 0, idx), py_slice(line, idx + 1, Len(line))>>

\* line.split(" ", 1): the parts before and after the first blank, or the
\* line alone when it has no blank
split1(line) ==
    LET idx == py_find(line, " ", 0)
    IN IF idx = 0 - 1 THEN <<line>>
       ELSE <<py_slice(line, 0, idx), py_slice(line, idx + 1, Len(line))>>

\* the try block of count_cards: qty_str, card_name = line.split(" ", 1);
\* qty = int(qty_str).  Both failures are ValueError.
parse_line(line) ==
    LET parts == split1(line)
    IN IF Len(parts) # 2 THEN [ok |-> FALSE, v |-> PyExc("ValueError")]
       ELSE IF ~int(parts[1]).ok THEN [ok |-> FALSE, v |-> PyExc("ValueError")]
       ELSE [ok |-> TRUE, qty |-> int(parts[1]).v, card_name |-> parts[2]]

\* a dict value: its items in insertion order
OrderedDict(items) == [t |-> "dict", items |-> items]

\* dict operations on the item sequence
dict_has(d, k) == \E j \in 1..Len(d) : d[j][1] = k
dict_get(d, k, default) ==
    IF dict_has(d, k) THEN d[CHOOSE j \in 1..Len(d) : d[j][1] = k][2]
    ELSE default
dict_set(d, k, v) ==
    IF dict_has(d, k)
    THEN [j \in 1..Len(d) |-> IF d[j][1] = k THEN <<k, v>> ELSE d[j]]
    ELSE Append(d, <<k, v>>)
\* what == compares on two dicts: the items, whatever their order
dict_items(d) == {d[j] : j \in 1..Len(d)}

\* all lines of all decks, in the order of the two nested loops
RECURSIVE all_lines(_)
all_lines(decks) ==
    IF decks = <<>> THEN <<>> ELSE Head(decks) \o all_lines(Tail(decks))

\* a variant whose body stores the quantity instead of adding it
RECURSIVE count_cards_overwrite(_)
count_cards_overwrite(decks) ==
    LET lines == all_lines(decks)
    IN IF lines = <<>> THEN <<>>
       ELSE LET before == count_cards_overwrite(<<SubSeq(lines, 1, Len(lines) - 1)>>)
                p      == parse_line(lines[Len(lines)])
            IN IF ~p.ok THEN before
               ELSE dict_set(before, p.card_name, p.qty)

\* the value count_cards returns
RECURSIVE count_cards_value(_)
count_cards_value(decks) ==
    LET lines == all_lines(decks)
    IN IF lines = <<>> THEN <<>>
       ELSE LET before == count_cards_value(<<SubSeq(lines, 1, Len(lines) - 1)>>)
                p      == parse_line(lines[Len(lines)])
            IN IF ~p.ok THEN before
               ELSE dict_set(before, p.card_name,
                             dict_get(before, p.card_name, 0) + p.qty)

\* the call count_cards(all_decks)
count_cards ==
    /\ c_pc = "count"
    /\ card_counts' = OrderedDict(count_cards_value(all_decks))
    /\ c_pc' = "counted"
    /\ UNCHANGED <<c_idx, type_groups, an, scryfall_file, callVars>>
    /\ UNCHANGED <<filterVars, analyzerVars, server, mainVars, poolVars>>

(***************************************************************************)
(* SpecCount: count_cards on any short list of short decks.                *)
(***************************************************************************)
MaxDecks == 2
MaxDeckLen == 2

\* well-formed lines, among them a two-digit and a negative quantity and a
\* name with a blank, and lines that are not of the form "<integer> <name>"
Lines ==
    {<<"1", " ", "a">>, <<"2", " ", "a">>, <<"1", " ", "b">>,
     <<"1", "2", " ", "a", " ", "b">>, <<"-", "1", " ", "a">>,
     <<"a">>, <<"a", " ", "1">>, <<" ", "a">>}
Decks == UNION {[1..n -> Lines] : n \in 0..MaxDeckLen}
DeckLists == UNION {[1..n -> Decks] : n \in 0..MaxDecks}

InitCount ==
    /\ IdleFilter
    /\ last_edhrec_request = 0
    /\ build_id = None
    /\ deck_cache = <<>>
    /\ server = [root |-> {}, table |-> {}, deck |-> {}, card |-> {}]
    /\ entry = "api"
    /\ run_pc = "off"
    /\ m_wake = 0
    /\ deck_hashes = <<>>
    /\ max_workers = 0
    /\ task = <<>>
    /\ collected = {}
    /\ all_decks \in DeckLists
    /\ c_pc = "count"
    /\ card_counts = None
    /\ IdleLookups
    /\ IdleCalls

NextCount == count_cards

SpecCount == InitCount /\ [][NextCount]_vars

(***************************************************************************)
(* The card-type cache and get_card_type.  A type line is a sequence of    *)
(* characters; scryfall_cache is a dict from card name to type line.       *)
(***************************************************************************)
Sp == <<" ">>
Creature == <<"C", "r", "e", "a", "t", "u", "r", "e">>
Instant == <<"I", "n", "s", "t", "a", "n", "t">>
Sorcery == <<"S", "o", "r", "c", "e", "r", "y">>
Artifact == <<"A", "r", "t", "i", "f", "a", "c", "t">>
Enchantment == <<"E", "n", "c", "h", "a", "n", "t", "m", "e", "n", "t">>
Planeswalker == <<"P", "l", "a", "n", "e", "s", "w", "a", "l", "k", "e", "r">>
Battle == <<"B", "a", "t", "t", "l", "e">>
Land == <<"L", "a", "n", "d">>
Unknown == <<"U", "n", "k", "n", "o", "w", "n">>
Legendary == <<"L", "e", "g", "e", "n", "d", "a", "r", "y">>
Human == <<"H", "u", "m", "a", "n">>
Kindred == <<"K", "i", "n", "d", "r", "e", "d">>

\* the file text json.dump(self.scryfall_cache, f, indent=2) writes, and a
\* text cut short before its closing brace
json_dump_dict(items) == [open |-> "{", items |-> items, close |-> "}"]
CutShort(items) == [open |-> "{", items |-> items, close |-> ""]

\* json.load(f) of such a text: the dict, or JSONDecodeError
json_load_dict(text) ==
    IF text.open = "{" /\ text.close = "}"
    THEN [ok |-> TRUE, v |-> text.items]
    ELSE [ok |-> FALSE, v |-> PyExc("JSONDecodeError")]

\* load_scryfall_cache(), reading the file as it is now
load_scryfall_cache ==
    IF scryfall_file.exists
    THEN LET res == json_load_dict(scryfall_file.text)
         IN  IF res.ok THEN res.v ELSE <<>>
    ELSE <<>>

\* the dict the file stores for a later reader, nothing when it does not parse
stored_map(file) ==
    IF file.exists /\ json_load_dict(file.text).ok
    THEN json_load_dict(file.text).v ELSE <<>>

\* r.json().get("type_line", "Unknown") of a 200 response
type_line_of(body) ==
    IF body.t = "not_json" THEN [ok |-> FALSE, v |-> PyExc("JSONDecodeError")]
    ELSE IF "type_line" \in DOMAIN body.v
         THEN [ok |-> TRUE, v |-> body.v["type_line"]]
         ELSE [ok |-> TRUE, v |-> Unknown]

(***************************************************************************)
(* group_cards_by_type: the labels in the order of the dict literal, and   *)
(* the inner loop over them                                                *)
(***************************************************************************)
\* a variant dict literal with Artifact ahead of Creature
TypeLabelsArtifactFirst ==
    <<Artifact, Creature, Instant, Sorcery, Enchantment, Planeswalker, Battle,
      Land, Unknown>>

TypeLabels ==
    <<Creature, Instant, Sorcery, Artifact, Enchantment, Planeswalker, Battle,
      Land, Unknown>>

\* Python's t in type_line for two str
contains(t, type_line) ==
    \E i \in 1..(Len(type_line) - Len(t) + 1) :
        SubSeq(type_line, i, i + Len(t) - 1) = t

\* for t in type_groups: if t != "Unknown" and t in type_line: ... break
\* the index of the label the loop stops at, 0 when it runs to the end
RECURSIVE match_from(_, _)
match_from(k, type_line) ==
    IF k > Len(TypeLabels) THEN 0
    ELSE IF TypeLabels[k] # Unknown /\ contains(TypeLabels[k], type_line) THEN k
    ELSE match_from(k + 1, type_line)

UnknownIndex == CHOOSE k \in 1..Len(TypeLabels) : TypeLabels[k] = Unknown

\* one pass of the outer loop's body after get_card_type has returned
classified(groups, card, count, type_line) ==
    LET k == match_from(1, type_line)
        g == IF k = 0 THEN UnknownIndex ELSE k
    IN  [groups EXCEPT ![g] = dict_set(@, card, count)]

EmptyGroups == [k \in 1..Len(TypeLabels) |-> <<>>]

\* the card the loop of group_cards_by_type is at
CurrentItem == card_counts.items[c_idx]

\* get_card_type has returned type_line to its caller: the loop of
\* group_cards_by_type files the card and moves on; any other caller just
\* has the value
Returns(a, type_line) ==
    IF c_pc = "classify"
    THEN /\ type_groups' = classified(type_groups, CurrentItem[1], CurrentItem[2],
                                      type_line)
         /\ c_idx' = c_idx + 1
         /\ c_pc' = IF c_idx = Len(card_counts.items) THEN "grouped" ELSE "classify"
    ELSE UNCHANGED <<type_groups, c_idx, c_pc>>

\* __init__, lines 23-42: the process starts and loads the cache file; the
\* names of the failed lookups stored by then are those it is to know
Construct(a) ==
    /\ c_pc \in {"classify", "lookups"}
    /\ c_pc = "classify" => a = 1
    /\ an[a].pc = "none"
    /\ an[a].runs < MaxRuns
    /\ an' = [an EXCEPT ![a] =
                [pc |-> "idle", scryfall_cache |-> load_scryfall_cache,
                 last_scryfall_request |-> 0, card_name |-> <<>>, ret |-> <<>>,
                 loaded |-> scryfall_file,
                 owes |-> UNION {an[b].owes : b \in Analyzers},
                 runs |-> an[a].runs + 1]]
    /\ UNCHANGED <<c_pc, card_counts, c_idx, type_groups, scryfall_file, callVars>>
    /\ UNCHANGED <<filterVars, analyzerVars, server, mainVars, poolVars>>

\* the process ends: the object and its dict are gone, the file stays
Exit(a) ==
    /\ c_pc = "lookups"
    /\ an[a].pc = "idle"
    /\ an' = [an EXCEPT ![a] =
                [NoAnalyzer EXCEPT !.runs = an[a].runs, !.owes = an[a].owes]]
    /\ UNCHANGED <<c_pc, card_counts, c_idx, type_groups, scryfall_file, callVars>>
    /\ UNCHANGED <<filterVars, analyzerVars, server, mainVars, poolVars>>

\* the names a caller may ask for
CardNames == {<<"a">>, <<"b">>}

\* a variant that sends the request without passing rate_limit_scryfall
get_card_type_unlimited(a) ==
    /\ an[a].pc = "idle"
    /\ c_pc \in {"classify", "lookups"}
    /\ \E card_name \in CardNames :
        /\ c_pc = "classify" => card_name = CurrentItem[1]
        /\ IF dict_has(an[a].scryfall_cache, card_name)
           THEN /\ an' = [an EXCEPT ![a].ret =
                            dict_get(an[a].scryfall_cache, card_name, <<>>)]
                /\ Returns(a, dict_get(an[a].scryfall_cache, card_name, <<>>))
           ELSE /\ an' = [an EXCEPT ![a].pc = "sf_get",
                                    ![a].card_name = card_name,
                                    ![a].ret = <<>>]
                /\ UNCHANGED <<type_groups, c_idx, c_pc>>
    /\ UNCHANGED <<card_counts, scryfall_file, callVars>>
    /\ UNCHANGED <<filterVars, analyzerVars, server, mainVars, poolVars>>

\* get_card_type(card_name), lines 264-269: a cached name is returned; for
\* any other name rate_limit_scryfall is passed and the request is sent
get_card_type(a) ==
    /\ an[a].pc = "idle"
    /\ c_pc \in {"classify", "lookups"}
    /\ \E card_name \in CardNames :
        /\ c_pc = "classify" => card_name = CurrentItem[1]
        /\ IF dict_has(an[a].scryfall_cache, card_name)
           THEN /\ an' = [an EXCEPT ![a].ret =
                            dict_get(an[a].scryfall_cache, card_name, <<>>)]
                /\ Returns(a, dict_get(an[a].scryfall_cache, card_name, <<>>))
           ELSE /\ an' = [an EXCEPT ![a].pc = "sf_get",
                                    ![a].card_name = card_name,
                                    ![a].ret = <<>>,
                                    ![a].last_scryfall_request = now]
                /\ UNCHANGED <<type_groups, c_idx, c_pc>>
    /\ UNCHANGED <<card_counts, scryfall_file, callVars>>
    /\ UNCHANGED <<filterVars, analyzerVars, server, mainVars, poolVars>>

\* lines 271-280: the response.  A status other than 200 stores "Unknown",
\* a 200 stores the type line; the dict is written to the file and the value
\* returned.  A body that is no JSON raises out of get_card_type.
CardResponse(a) ==
    /\ an[a].pc = "sf_get"
    /\ \E r \in server.card :
        LET card_name == an[a].card_name
            failed == r.status # HTTP_OK
            res == IF failed THEN [ok |-> TRUE, v |-> Unknown]
                   ELSE type_line_of(r.body)
        IN  IF res.ok
            THEN LET cache == dict_set(an[a].scryfall_cache, card_name, res.v)
                 IN  /\ an' = [an EXCEPT ![a].pc = "idle",
                                         ![a].card_name = <<>>,
                                         ![a].scryfall_cache = cache,
                                         ![a].ret = res.v,
                                         ![a].owes = IF failed
                                                     THEN @ \cup {card_name}
                                                     ELSE @]
                     /\ scryfall_file' = File(json_dump_dict(cache))
                     /\ Returns(a, res.v)
            ELSE /\ an' = [an EXCEPT ![a].pc = "idle", ![a].card_name = <<>>]
                 /\ c_pc' = IF c_pc = "classify" THEN "raised" ELSE c_pc
                 /\ UNCHANGED <<scryfall_file, type_groups, c_idx>>
    /\ UNCHANGED <<card_counts, callVars>>
    /\ UNCHANGED <<filterVars, analyzerVars, server, mainVars, poolVars>>

\* the responses of the card database: a type line, no type_line field, a
\* body that is no JSON, and a status other than 200
CardBody(type_line) == PyDict([type_line |-> type_line])
TypeLines ==
    {Legendary \o Sp \o Creature \o Sp \o <<"-">> \o Sp \o Human,
     Artifact \o Sp \o Creature,
     Artifact \o Sp \o Land,
     Kindred \o Sp \o Instant,
     Kindred}
CardResponses ==
    {Response(HTTP_OK, CardBody(t)) : t \in TypeLines}
        \cup {Response(HTTP_OK, PyDict(<<>>)), Response(HTTP_OK, NotJson),
              Response(404, NotJson)}

(***************************************************************************)
(* SpecTypes: one run of group_cards_by_type over any small count map,     *)
(* with any cache file found at start.                                     *)
(***************************************************************************)
MaxCount == 2
\* the count maps over CardNames: each name at most once, in any order
CountMaps ==
    {<<>>}
        \cup {<<<<n, q>>>> : n \in CardNames, q \in 1..MaxCount}
        \cup UNION {{<<<<n, q>>, <<m, p>>>> :
                        m \in CardNames \ {n},
                        q \in 1..MaxCount, p \in 1..MaxCount} : n \in CardNames}

\* the cache files a process may find: none, a cut-short one, parseable ones
ScryfallFiles ==
    {NoFile, File(CutShort(<<>>)), File(json_dump_dict(<<>>)),
     File(json_dump_dict(<< <<<<"a">>, Artifact \o Sp \o Creature>> >>)),
     File(json_dump_dict(<< <<<<"a">>, Unknown>> >>))}

NoPipeline ==
    /\ IdleFilter
    /\ FreshAnalyzer
    /\ deck_cache = <<>>
    /\ entry = "api"
    /\ run_pc = "off"
    /\ deck_hashes = <<>>
    /\ IdleCalls

InitTypes ==
    /\ NoPipeline
    /\ server = [root |-> {}, table |-> {}, deck |-> {}, card |-> CardResponses]
    /\ c_pc = "classify"
    /\ card_counts \in {OrderedDict(m) : m \in CountMaps \ {<<>>}}
    /\ c_idx = 1
    /\ type_groups = EmptyGroups
    /\ an = [a \in Analyzers |-> NoAnalyzer]
    /\ scryfall_file \in ScryfallFiles

NextTypes ==
    \E a \in Analyzers :
        \/ Construct(a)
        \/ get_card_type(a)
        \/ CardResponse(a)

SpecTypes == InitTypes /\ [][NextTypes]_vars

(***************************************************************************)
(* SpecCache: processes that share the cache file look card names up,      *)
(* end and start again, in any order.                                      *)
(***************************************************************************)
InitCache ==
    /\ NoPipeline
    /\ server = [root |-> {}, table |-> {}, deck |-> {},
                 card |-> {Response(404, NotJson),
                           Response(HTTP_OK, CardBody(Artifact \o Sp \o Creature)),
                           Response(HTTP_OK, NotJson)}]
    /\ c_pc = "lookups"
    /\ card_counts = None
    /\ c_idx = 0
    /\ type_groups = None
    /\ an = [a \in Analyzers |-> NoAnalyzer]
    /\ scryfall_file \in ScryfallFiles

NextCache ==
    \E a \in Analyzers :
        \/ Construct(a)
        \/ get_card_type(a)
        \/ CardResponse(a)
        \/ Exit(a)

SpecCache == InitCache /\ [][NextCache]_vars

(***************************************************************************)
(* SpecRun: one process from its start to its card lookups.  The analyzer  *)
(* is constructed (its build id is taken as resolved), the decks are       *)
(* downloaded, the first reports are written and card names are looked up, *)
(* whatever the deck cache and the card-type cache file hold at the start. *)
(***************************************************************************)
InitRun ==
    /\ IdleFilter
    /\ IdleCalls
    /\ last_edhrec_request = now
    /\ build_id = PyStr(GoodId)
    /\ m_wake = 0
    /\ max_workers = 0
    /\ task = <<>>
    /\ collected = {}
    /\ all_decks = <<>>
    /\ deck_hashes \in HashLists
    /\ deck_cache \in [HashesOf(deck_hashes) -> CacheFiles]
    /\ server = [root |-> {}, table |-> {},
                 deck |-> {Response(404, NotJson), Response(HTTP_OK, DeckBody(SolRing))},
                 card |-> {Response(404, NotJson),
                           Response(HTTP_OK, CardBody(Artifact \o Sp \o Creature))}]
    /\ entry = "api"
    /\ run_pc = "fdp_call"
    /\ c_pc = "lookups"
    /\ card_counts = None
    /\ c_idx = 0
    /\ type_groups = None
    /\ an = [a \in Analyzers |-> NoAnalyzer]
    /\ scryfall_file \in ScryfallFiles

NextRun ==
    \/ an[1].pc = "none" /\ Construct(1)
    \/ /\ an[1].pc # "none"
       /\ \/ FdpCall
          \/ \E i \in DOMAIN task : PoolWorker(i)
          \/ \E i \in DOMAIN task : Collect(i)
          \/ FdpReturn
          \/ Tick
          \/ save_decklists
          \/ save_master_cardcount
    \/ run_pc = "classify" /\ (get_card_type(1) \/ CardResponse(1))

SpecRun == InitRun /\ [][NextRun]_vars

(***************************************************************************)
(* SpecBuildId: a single caller calls fetch_edhrec_build_id several times  *)
(* in a row, for any short homepage; each request may also be answered     *)
(* with a status other than 200.                                           *)
(***************************************************************************)
MaxPage == 8
MaxCalls == 3
PageChars == {"S", "M", "/", "a"}
Pages == UNION {[1..n -> PageChars] : n \in 0..MaxPage}

\* a variant that never finds a stored build id
never_stored(bid) == FALSE

\* line 84, if self.build_id:
is_stored(bid) == truthy(bid)

\* fetch_edhrec_build_id() called by a single caller (so that the wait of
\* rate_limit_edhrec is over when it stamps): the stored build id, or one
\* rate-limited GET of the homepage and the build id taken from it
fetch_edhrec_build_id ==
    /\ run_pc = "bid_calls"
    /\ Len(b_calls) < MaxCalls
    /\ IF is_stored(build_id)
       THEN /\ b_calls' = Append(b_calls, [waited |-> FALSE, r |-> NoResponse,
                                           outcome |-> Returned(build_id)])
            /\ UNCHANGED <<build_id, last_edhrec_request>>
       ELSE \E r \in server.root :
               LET res == build_id_from(r)
               IN  /\ last_edhrec_request' = now
                   /\ build_id' = IF res.ok THEN res.v ELSE build_id
                   /\ b_calls' = Append(b_calls,
                                    [waited |-> TRUE, r |-> r,
                                     outcome |-> IF res.ok THEN Returned(res.v)
                                                 ELSE Raised(res.v)])
    /\ UNCHANGED <<filterVars, deck_cache, server, cardVars, m_table, l_last,
                   yielded, mainVars, poolVars>>

InitBuildId ==
    /\ IdleFilter
    /\ FreshAnalyzer
    /\ deck_cache = <<>>
    /\ entry = "api"
    /\ run_pc = "bid_calls"
    /\ deck_hashes = <<>>
    /\ c_pc = "off"
    /\ card_counts = None
    /\ IdleLookups
    /\ IdleCalls
    /\ \E page \in Pages :
        server = [root |-> {Response(HTTP_OK, page), Response(500, <<>>)},
                  table |-> {}, deck |-> {}, card |-> {}]

NextBuildId == fetch_edhrec_build_id

SpecBuildId == InitBuildId /\ [][NextBuildId]_vars


(***************************************************************************)
(* SpecLimiter: a single caller (the main thread of one analyzer) passes   *)
(* the two rate limiters in any order, while time passes in clock units.   *)
(***************************************************************************)
\* a variant that measures against the timestamp of the other service
scryfall_wake_shared(a) ==
    LET elapsed == now - last_edhrec_request
    IN  IF elapsed < SCRYFALL_MIN_DELAY THEN now + (SCRYFALL_MIN_DELAY - elapsed)
        ELSE now

\* rate_limit_scryfall, lines 49-51: the elapsed time is measured and the
\* caller sleeps until this time (now itself when no sleep is needed)
scryfall_wake(a) ==
    LET elapsed == now - an[a].last_scryfall_request
    IN  IF elapsed < SCRYFALL_MIN_DELAY THEN now + (SCRYFALL_MIN_DELAY - elapsed)
        ELSE now

\* rate_limit_edhrec, lines 55-57: elapsed is measured, the sleep begins
rate_limit_edhrec_read ==
    /\ run_pc = "lim_idle"
    /\ m_wake' = edhrec_wake
    /\ run_pc' = "lim_edhrec"
    /\ l_last' = [service |-> "edhrec", slept |-> edhrec_wake > now]
    /\ UNCHANGED <<filterVars, analyzerVars, server, cardVars, b_calls, m_table,
                   yielded, entry, deck_hashes, poolVars>>

\* line 58: the sleep is over, self.last_edhrec_request = time.time()
rate_limit_edhrec_stamp ==
    /\ run_pc = "lim_edhrec"
    /\ now >= m_wake
    /\ last_edhrec_request' = now
    /\ run_pc' = "lim_idle"
    /\ m_wake' = 0
    /\ UNCHANGED <<filterVars, build_id, deck_cache, server, auxVars, entry,
                   deck_hashes, poolVars>>

\* rate_limit_scryfall, lines 49-51: elapsed is measured, the sleep begins
rate_limit_scryfall_read ==
    /\ run_pc = "lim_idle"
    /\ m_wake' = scryfall_wake(1)
    /\ run_pc' = "lim_scryfall"
    /\ l_last' = [service |-> "scryfall", slept |-> scryfall_wake(1) > now]
    /\ UNCHANGED <<filterVars, analyzerVars, server, cardVars, b_calls, m_table,
                   yielded, entry, deck_hashes, poolVars>>

\* line 52: the sleep is over, self.last_scryfall_request = time.time()
rate_limit_scryfall_stamp ==
    /\ run_pc = "lim_scryfall"
    /\ now >= m_wake
    /\ an' = [an EXCEPT ![1].last_scryfall_request = now]
    /\ run_pc' = "lim_idle"
    /\ m_wake' = 0
    /\ UNCHANGED <<filterVars, analyzerVars, server, c_pc, card_counts, c_idx,
                   type_groups, scryfall_file, callVars, entry, deck_hashes,
                   poolVars>>

\* Time passes by one clock unit, whatever the caller is doing (a sleep may
\* last longer than asked): every stored clock reading is one unit older,
\* and a reading older than the longer minimum delay is kept at that age.
LimiterTick ==
    /\ run_pc \in {"lim_idle", "lim_edhrec", "lim_scryfall"}
    /\ last_edhrec_request' = Max(last_edhrec_request - 1, now - EDHREC_MIN_DELAY)
    /\ an' = [an EXCEPT ![1].last_scryfall_request =
                            Max(@ - 1, now - EDHREC_MIN_DELAY)]
    /\ m_wake' = IF run_pc = "lim_idle" THEN m_wake ELSE Max(m_wake - 1, now)
    /\ UNCHANGED <<filterVars, build_id, deck_cache, server, c_pc, card_counts,
                   c_idx, type_groups, scryfall_file, callVars, entry, run_pc,
                   deck_hashes, poolVars>>

\* the analyzer just constructed (both timestamps 0, long ago), no pipeline
InitLimiter ==
    /\ IdleFilter
    /\ FreshAnalyzer
    /\ IdleCalls
    /\ deck_cache = <<>>
    /\ server = [root |-> {}, table |-> {}, deck |-> {}, card |-> {}]
    /\ entry = "api"
    /\ run_pc = "lim_idle"
    /\ deck_hashes = <<>>
    /\ c_pc = "off"
    /\ card_counts = None
    /\ c_idx = 0
    /\ type_groups = None
    /\ an = [a \in Analyzers |->
                IF a = 1 THEN [NoAnalyzer EXCEPT !.pc = "idle", !.runs = 1]
                ELSE NoAnalyzer]
    /\ scryfall_file = NoFile

NextLimiter ==
    \/ rate_limit_edhrec_read
    \/ rate_limit_edhrec_stamp
    \/ rate_limit_scryfall_read
    \/ rate_limit_scryfall_stamp
    \/ LimiterTick

SpecLimiter == InitLimiter /\ [][NextLimiter]_vars

(***************************************************************************)
(* SpecStream: the download step of the web front end (web_app.py, lines   *)
(* 204-213).  The build id is resolved and the hash list is not empty      *)
(* (lines 152 and 187-197).  fetch_decks_with_progress is the streaming    *)
(* variant of fetch_many: the same pool and the same workers, and one      *)
(* triple reported per completed fetch.                                    *)
(***************************************************************************)
\* a variant that counts the completions from 0
progress_triple_from_zero(completed, total, outcome) ==
    [completed |-> completed - 1, total |-> total,
     deck |-> IF outcome.kind = "returned" THEN outcome.v ELSE None]

\* the triple reported for a completed fetch: the deck, or absent
progress_triple(completed, total, outcome) ==
    [completed |-> completed, total |-> total,
     deck |-> IF outcome.kind = "returned" THEN outcome.v ELSE None]

\* a fetch has completed: its triple is yielded, and the loop of the web
\* front end appends a truthy deck (lines 205-207)
ProgressYield(i) ==
    /\ run_pc = "collect"
    /\ task[i].pc = "done"
    /\ i \notin collected
    /\ collected' = collected \cup {i}
    /\ LET triple == progress_triple(Cardinality(collected) + 1,
                                     Len(deck_hashes), task[i].outcome)
       IN  /\ yielded' = Append(yielded, triple)
           /\ all_decks' = IF truthy(triple.deck)
                           THEN Append(all_decks, triple.deck)
                           ELSE all_decks
    /\ UNCHANGED <<filterVars, analyzerVars, server, cardVars, b_calls, m_table,
                   l_last, mainVars, max_workers, task>>

InitStream ==
    /\ IdleFilter
    /\ IdleCards
    /\ last_edhrec_request = now
    /\ build_id = PyStr(GoodId)
    /\ m_wake = 0
    /\ max_workers = 0
    /\ task = <<>>
    /\ collected = {}
    /\ all_decks = <<>>
    /\ deck_hashes \in HashLists \ {<<>>}
    /\ deck_cache \in [HashesOf(deck_hashes) -> CacheFiles]
    /\ server = [root |-> {}, table |-> {}, deck |-> DeckResponses, card |-> {}]
    /\ entry = "web"
    /\ run_pc = "fdp_call"

NextStream ==
    \/ FdpCall
    \/ \E i \in DOMAIN task : PoolWorker(i)
    \/ \E i \in DOMAIN task : ProgressYield(i)
    \/ FdpReturn
    \/ Tick

SpecStream == InitStream /\ [][NextStream]_vars

(***************************************************************************)
(* SpecCall: one call of fetch_decks_parallel with any short hash list,    *)
(* of the class (entry "api") or of the standalone script (entry           *)
(* "script", edhrec_decklists_json_to_txt.py, lines 185-203).  A build id  *)
(* is at hand in both: resolved before by the caller of the class, the     *)
(* constant EDHREC_BUILD_ID in the script.  The workers of the script run  *)
(* the same steps (lines 158-178), with the script's minimum delay.        *)
(***************************************************************************)
\* ThreadPoolExecutor(max_workers=min(5, len(deck_hashes))), lines 187-189:
\* the constructor raises ValueError unless max_workers is greater than 0
ThreadPoolExecutor(n) ==
    IF max_workers_for(n) <= 0
    THEN [ok |-> FALSE, max_workers |-> 0]
    ELSE [ok |-> TRUE, max_workers |-> max_workers_for(n)]

\* the script's fetch_decks_parallel up to the submission, lines 186-192
ScriptFdpCall ==
    /\ entry = "script"
    /\ run_pc = "fdp_call"
    /\ all_decks' = <<>>
    /\ collected' = {}
    /\ LET pool == ThreadPoolExecutor(Len(deck_hashes))
       IN  IF ~pool.ok
           THEN /\ run_pc' = "aborted"
                /\ UNCHANGED <<max_workers, task>>
           ELSE /\ run_pc' = "collect"
                /\ max_workers' = pool.max_workers
                /\ task' = [i \in 1..Len(deck_hashes) |-> NewTask]
    /\ UNCHANGED <<filterVars, analyzerVars, server, auxVars, entry, m_wake, deck_hashes>>

InitCall ==
    /\ IdleFilter
    /\ IdleCards
    /\ last_edhrec_request = now
    /\ build_id = PyStr(GoodId)
    /\ m_wake = 0
    /\ max_workers = 0
    /\ task = <<>>
    /\ collected = {}
    /\ all_decks = <<>>
    /\ deck_hashes \in HashLists
    /\ deck_cache \in [HashesOf(deck_hashes) -> CacheFiles]
    /\ server = [root |-> {}, table |-> {},
                 deck |-> {Response(404, NotJson), Response(HTTP_OK, DeckBody(SolRing))},
                 card |-> {}]
    /\ entry \in {"api", "script"}
    /\ run_pc = "fdp_call"

NextCall ==
    \/ entry = "api" /\ FdpCall
    \/ ScriptFdpCall
    \/ \E i \in DOMAIN task : PoolWorker(i)
    \/ \E i \in DOMAIN task : Collect(i)
    \/ FdpReturn
    \/ Tick

SpecCall == InitCall /\ [][NextCall]_vars

(***************************************************************************)
(* Claims about the rate limiter, the deck cache and the downloader,       *)
(* checked under Spec and SpecPool.                                        *)
(***************************************************************************)

\* a step in which a caller leaves rate_limit_edhrec: its timestamp is
\* written and its request is let through
Permitted ==
    \/ \E i \in DOMAIN task :
        /\ Sleeping(i)
        /\ task'[i].pc \in {"bid_get", "get"}
    \/ run_pc = "bid_sleep" /\ run_pc' = "bid_get"
    \/ run_pc = "tab_sleep" /\ run_pc' = "tab_get"

\* C1: under concurrent callers the measured elapsed time and the written
\* timestamp act as one atomic unit, so any two permitted EDHREC requests are
\* at least EDHREC_MIN_DELAY apart: whenever a request is permitted, the
\* previous permitted request is at least that long ago.
C1_PermitsSpaced ==
    [][Permitted => now - last_edhrec_request >= EDHREC_MIN_DELAY]_vars

\* fetch_decks_parallel has returned
FdpReturned ==
    run_pc \in {"save_decklists", "save_master", "classify", "save_cardtypes",
                "finished"}

\* the call of fetch_deck_by_hash for list position i returned a deck
Successful(i) ==
    task[i].outcome.kind = "returned" /\ task[i].outcome.v.t = "list"

Count(seq, x) == Cardinality({k \in 1..Len(seq) : seq[k] = x})

DeckValues == {PyList(<<>>), PyList(SolRing)}

\* C2: fetch_deck_by_hash is attempted exactly once per list position, and
\* the output holds every successful result exactly once (in any order).
C2_EveryResultOnce ==
    FdpReturned =>
        /\ DOMAIN task = 1..Len(deck_hashes)
        /\ \A i \in DOMAIN task : task[i].pc = "done"
        /\ \A d \in DeckValues :
            Count(all_decks, d) =
                Cardinality({i \in DOMAIN task :
                                Successful(i) /\ task[i].outcome.v = d})

\* the deck-detail requests in flight
InFlight == Cardinality({i \in DOMAIN task : task[i].pc = "get"})

\* C3: the pool has min(5, N) workers, and at most 5, and at most N,
\* deck-detail requests are in flight at any time.
C3_PoolBounded ==
    /\ run_pc = "collect" =>
        max_workers = IF Len(deck_hashes) < 5 THEN Len(deck_hashes) ELSE 5
    /\ InFlight <= 5
    /\ InFlight <= Len(deck_hashes)

\* five requests in flight while a sixth call waits for a worker
C3_Witness ==
    /\ InFlight = 5
    /\ \E i \in DOMAIN task : task[i].pc = "queued"

\* C4: when the cache file of h holds what save_deck_to_cache(h, d) writes,
\* for any deck d, the empty one included, fetch_deck_by_hash(h) returns d
\* with no request, no build-id resolution and no rate-limiter use.
C4_CacheRoundTrip ==
    \A i \in DOMAIN task :
        \A d \in DeckValues :
            task[i].pc # "queued" /\ task[i].seen = File(json_dump(d)) =>
                /\ task[i].pc = "done"
                /\ task[i].outcome = Returned(d)
                /\ task[i].r = NoResponse

\* C5: on a cache miss, a response with a non-success status or a malformed
\* body (no JSON, the path lacking, a step of the path no object) makes
\* fetch_deck_by_hash return None, without raising.
C5_MalformedIsAbsent ==
    \A i \in DOMAIN task :
        /\ task[i].pc = "done"
        /\ task[i].r # NoResponse
        /\ task[i].r.status # HTTP_OK \/ ~deck_of_body(task[i].r.body).ok
        => task[i].outcome = Returned(None)

\* C6: a fetch that returns None or raises neither aborts the batch nor is
\* retried, and the returned list has exactly as many decks as there were
\* successful fetches.
C6_FailuresIsolated ==
    FdpReturned /\ deck_hashes # <<>> =>
        /\ collected = DOMAIN task
        /\ \A i \in DOMAIN task : task[i].outcome.kind # "pending"
        /\ Len(all_decks) = Cardinality({i \in DOMAIN task : Successful(i)})

\* build-id discovery failed, on the main thread or in a worker, or the deck
\* table was not served
DiscoveryErrors ==
    {PyExc("Failed to load EDHREC homepage"),
     PyExc("Could not find _buildManifest.js"),
     PyExc("Could not locate /_next/static/"),
     PyExc("Extracted invalid EDHREC build ID")}
StructuralFailure ==
    \/ run_pc = "aborted"
    \/ \E i \in DOMAIN task :
        task[i].outcome.kind = "raised" /\ task[i].outcome.v \in DiscoveryErrors

\* C7: once build-id discovery or the deck-table fetch has failed, no
\* deck-detail request is sent, no card type is looked up and no report is
\* written, on whichever thread the build id was being resolved.
C7_StructuralFailureAborts ==
    [][StructuralFailure =>
        /\ ~ \E i \in DOMAIN task : task[i].pc = "rl_sleep" /\ task'[i].pc = "get"
        /\ ~ (run_pc = "classify" /\ run_pc' # "classify")
        /\ ~ (run_pc \in {"save_decklists", "save_master", "save_cardtypes"}
                /\ run_pc' # run_pc)]_vars

(***************************************************************************)
(* Claims about filter_deck_hashes, checked under SpecFilter.              *)
(***************************************************************************)

\* the position in the table of the entry carrying hash h, and its date
PosOf(h) == CHOOSE j \in 1..Len(deck_table) : deck_table[j]["urlhash"] = h
DateOf(h) == strptime(deck_table[PosOf(h)]["savedate"])
InBudget(j) ==
    /\ f_args.min_price <= deck_table[j]["price"]
    /\ deck_table[j]["price"] <= f_args.max_price
BudgetSet == {j \in 1..Len(deck_table) : InBudget(j)}

ReturnedInBudget ==
    \A i \in 1..Len(f_result) :
        \E j \in 1..Len(deck_table) :
            deck_table[j]["urlhash"] = f_result[i] /\ InBudget(j)

\* C8 as stated: for every limit the call returns at most `limit` hashes, each
\* of an entry whose price lies in [min_price, max_price].
C8_AnyLimit ==
    f_pc = "done" => Len(f_result) <= f_args.recent /\ ReturnedInBudget

\* C8, amended: for every limit >= 0 the call returns at most `limit` hashes,
\* and for every limit each returned hash belongs to an entry whose price p
\* satisfies min_price <= p <= max_price.
C8_FilterBounded ==
    f_pc = "done" =>
        /\ f_args.recent >= 0 => Len(f_result) <= f_args.recent
        /\ ReturnedInBudget

\* a call that truncated and that dropped an entry for its price, with both
\* price bounds met exactly by returned entries
C8_Witness ==
    /\ f_pc = "done"
    /\ f_args.recent >= 1
    /\ Len(f_result) = f_args.recent
    /\ Cardinality(BudgetSet) > f_args.recent
    /\ BudgetSet # 1..Len(deck_table)
    /\ \E i \in 1..Len(f_result) :
        deck_table[PosOf(f_result[i])]["price"] = f_args.min_price
    /\ \E i \in 1..Len(f_result) :
        deck_table[PosOf(f_result[i])]["price"] = f_args.max_price

\* C9: the returned hashes are ordered by save date descending, and two
\* returned entries with equal save dates keep their order of the input table.
C9_SortedStable ==
    f_pc = "done" =>
        \A a, b \in 1..Len(f_result) :
            a < b =>
                \/ dt_lt(DateOf(f_result[b]), DateOf(f_result[a]))
                \/ /\ DateOf(f_result[a]) = DateOf(f_result[b])
                   /\ PosOf(f_result[a]) < PosOf(f_result[b])

\* three hashes returned, in another order than the table's, two of them
\* with the same save date
C9_Witness ==
    /\ f_pc = "done"
    /\ Len(f_result) = 3
    /\ f_result # <<1, 2, 3>>
    /\ \E a, b \in 1..3 : a < b /\ DateOf(f_result[a]) = DateOf(f_result[b])

\* the reference of C10: among the entries in budget, pick the most recent
\* one (the earliest in the table among equally recent ones), n times
RECURSIVE ref_pick(_, _)
ref_pick(B, n) ==
    IF n <= 0 \/ B = {} THEN <<>>
    ELSE LET best == CHOOSE j \in B : \A k \in B \ {j} :
                        \/ dt_lt(strptime(deck_table[k]["savedate"]),
                                 strptime(deck_table[j]["savedate"]))
                        \/ /\ deck_table[k]["savedate"] = deck_table[j]["savedate"]
                           /\ j < k
         IN <<deck_table[best]["urlhash"]>> \o ref_pick(B \ {best}, n - 1)

\* C10 as stated: for every table and parameters the result is the first
\* `limit` hashes of the in-budget entries stably sorted by date descending.
C10_AnyLimit ==
    f_pc = "done" => f_result = ref_pick(BudgetSet, f_args.recent)

\* C10, amended: for every limit >= 0 the result equals the reference that
\* filters on price, then sorts stably by date descending, then truncates to
\* the first `limit`, then projects to hashes.
C10_MostRecentInBudget ==
    f_pc = "done" /\ f_args.recent >= 0 =>
        f_result = ref_pick(BudgetSet, f_args.recent)

\* a truncating call where an entry out of budget is more recent than every
\* returned one
C10_Witness ==
    /\ f_pc = "done"
    /\ f_args.recent >= 1
    /\ Len(f_result) = f_args.recent
    /\ Cardinality(BudgetSet) > f_args.recent
    /\ \E j \in 1..Len(deck_table) :
        /\ ~InBudget(j)
        /\ \A i \in 1..Len(f_result) :
            dt_lt(DateOf(f_result[i]), strptime(deck_table[j]["savedate"]))

\* C11: filter_deck_hashes is pure: the call leaves the deck table and every
\* entry of it unchanged (same fields, same values, same order).
C11_TableUnchanged ==
    [][filter_deck_hashes => deck_table' = deck_table]_vars

(***************************************************************************)
(* Claims about count_cards, checked under SpecCount.                      *)
(***************************************************************************)

\* all_decks in the order p
Permuted(p) == [i \in 1..Len(all_decks) |-> all_decks[p[i]]]

\* C12: for every sequence of decks and every permutation of it, count_cards
\* returns the same map from card name to quantity.
C12_OrderInsensitive ==
    c_pc = "counted" =>
        \A p \in Permutations(1..Len(all_decks)) :
            dict_items(count_cards_value(Permuted(p))) = dict_items(card_counts.items)

\* two different decks whose other order inserts the keys in another order
C12_Witness ==
    /\ c_pc = "counted"
    /\ Len(all_decks) = 2
    /\ all_decks[1] # all_decks[2]
    /\ count_cards_value(<<all_decks[2], all_decks[1]>>) # card_counts.items
    /\ Len(card_counts.items) >= 2

\* the reference of C13: a line is well formed when the text before its
\* first blank is an integer; its name is the text after that blank
IsIntegerText(s) ==
    \/ /\ Len(s) >= 1
       /\ \A k \in 1..Len(s) : IsDigit(s[k])
    \/ /\ Len(s) >= 2
       /\ s[1] \in {"-", "+"}
       /\ \A k \in 2..Len(s) : IsDigit(s[k])
FirstBlank(line) ==
    CHOOSE k \in 1..Len(line) :
        line[k] = " " /\ \A j \in 1..(k - 1) : line[j] # " "
WellFormed(line) ==
    /\ \E k \in 1..Len(line) : line[k] = " "
    /\ IsIntegerText(SubSeq(line, 1, FirstBlank(line) - 1))
NameOf(line) == SubSeq(line, FirstBlank(line) + 1, Len(line))
QtyOf(line) == int(SubSeq(line, 1, FirstBlank(line) - 1)).v

RefLines == all_lines(all_decks)
RefIndices(n) ==
    {i \in 1..Len(RefLines) : WellFormed(RefLines[i]) /\ NameOf(RefLines[i]) = n}
RefNames ==
    {NameOf(RefLines[i]) : i \in {j \in 1..Len(RefLines) : WellFormed(RefLines[j])}}
RECURSIVE RefSum(_)
RefSum(S) ==
    IF S = {} THEN 0
    ELSE LET i == CHOOSE j \in S : TRUE
         IN QtyOf(RefLines[i]) + RefSum(S \ {i})

\* C13: count_cards maps each card name to the sum of the quantities of the
\* well-formed lines "<integer> <name>" carrying that name; a line that is
\* not of that form contributes nothing and creates no key.
C13_SumOfWellFormed ==
    c_pc = "counted" =>
        /\ dict_items(card_counts.items) = {<<n, RefSum(RefIndices(n))>> : n \in RefNames}
        /\ Cardinality(dict_items(card_counts.items)) = Len(card_counts.items)

\* a name carried by well-formed lines of two decks, next to a malformed line
C13_Witness ==
    /\ c_pc = "counted"
    /\ \E i \in 1..Len(RefLines) : ~WellFormed(RefLines[i])
    /\ Len(all_decks) = 2
    /\ \E a \in 1..Len(all_decks[1]), b \in 1..Len(all_decks[2]) :
        /\ WellFormed(all_decks[1][a])
        /\ WellFormed(all_decks[2][b])
        /\ NameOf(all_decks[1][a]) = NameOf(all_decks[2][b])

(***************************************************************************)
(* Claims about group_cards_by_type and the card-type cache.               *)
(***************************************************************************)

\* the reference of C14: the labels in the order the claim gives them, and
\* the first of them that occurs in a type line
ClaimOrder ==
    <<Creature, Instant, Sorcery, Artifact, Enchantment, Planeswalker, Battle, Land>>
IsSubstring(t, s) ==
    \E i \in 0..(Len(s) - Len(t)) : \A j \in 1..Len(t) : s[i + j] = t[j]
RefGroup(type_line) ==
    LET hits == {k \in 1..Len(ClaimOrder) : IsSubstring(ClaimOrder[k], type_line)}
    IN  IF hits = {} THEN Unknown
        ELSE ClaimOrder[CHOOSE k \in hits : \A m \in hits : k <= m]

\* the type line get_card_type returned for a card of the run
TypeLineOf(card) == dict_get(an[1].scryfall_cache, card, <<>>)

\* C14: every card of card_counts is in exactly one of the nine groups, with
\* its count, and that group is the first label of the order Creature,
\* Instant, Sorcery, Artifact, Enchantment, Planeswalker, Battle, Land that
\* is a substring of its type line, or Unknown when none is.
C14_Partition ==
    c_pc = "grouped" =>
        /\ Len(type_groups) = 9
        /\ \A j \in 1..Len(card_counts.items) :
            \A k \in 1..Len(type_groups) :
                card_counts.items[j] \in dict_items(type_groups[k])
                    <=> TypeLabels[k] = RefGroup(TypeLineOf(card_counts.items[j][1]))
        /\ \A k \in 1..Len(type_groups) :
            /\ dict_items(type_groups[k]) \subseteq dict_items(card_counts.items)
            /\ Cardinality(dict_items(type_groups[k])) = Len(type_groups[k])

\* two cards classified, one of them with a type line holding both Artifact
\* and Creature and filed under Creature, the other filed under Unknown
C14_Witness ==
    /\ c_pc = "grouped"
    /\ Len(card_counts.items) = 2
    /\ \E j \in 1..2 :
        /\ TypeLineOf(card_counts.items[j][1]) = Artifact \o Sp \o Creature
        /\ card_counts.items[j] \in dict_items(type_groups[1])
    /\ type_groups[9] # <<>>

\* C15: a lookup that gets a status other than 200 returns "Unknown" and
\* leaves "Unknown" for the name in the dict and in the file, and no later
\* call for that name, by the same process or by one that loaded the file
\* after that, sends a request.
C15_FailedLookupPermanent ==
    [][\A a \in Analyzers :
        /\ an[a].pc = "sf_get" /\ an'[a].owes # an[a].owes =>
            /\ an'[a].ret = Unknown
            /\ <<an[a].card_name, Unknown>> \in dict_items(an'[a].scryfall_cache)
            /\ <<an[a].card_name, Unknown>> \in dict_items(stored_map(scryfall_file'))
        /\ an[a].pc = "idle" /\ an'[a].pc = "sf_get" =>
            an'[a].card_name \notin an[a].owes]_vars

\* C16: no card name ever disappears from the stored map and no stored value
\* is ever replaced by a different one, whatever the processes do.
C16_StoredMapGrows ==
    [][dict_items(stored_map(scryfall_file))
            \subseteq dict_items(stored_map(scryfall_file'))]_vars

(***************************************************************************)
(* Claim about the two cache readers, checked under SpecRun.               *)
(***************************************************************************)
\* a deck cache file that is absent or does not parse
UnreadableDeck(file) == ~file.exists \/ ~json_load(file.text).ok
\* the same for the card-type cache file
UnreadableTypes(file) == ~file.exists \/ ~json_load_dict(file.text).ok

\* C17: a cache read never surfaces an error.  When the file is absent or
\* does not parse, load_deck_from_cache returns None and fetch_deck_by_hash
\* goes on as on a miss, and load_scryfall_cache returns the empty dict, so
\* that the first lookup of any name sends a request.
C17_CacheReadNeverRaises ==
    [][/\ \A i \in DOMAIN task :
            /\ task[i].pc = "queued" /\ task'[i].pc # "queued"
            /\ UnreadableDeck(deck_cache[deck_hashes[i]])
            => /\ load_deck_from_cache(deck_hashes[i]) = None
               /\ task'[i].pc = "rl"
               /\ task'[i].outcome = Pending
       /\ \A a \in Analyzers :
            /\ an[a].pc = "none" /\ an'[a].pc # "none" /\ UnreadableTypes(scryfall_file)
               => an'[a].pc = "idle" /\ an'[a].scryfall_cache = <<>>
            /\ an[a].pc = "idle" /\ an[a].scryfall_cache = <<>> /\ an'[a] # an[a]
               => an'[a].pc = "sf_get"]_vars

\* a fetch that found a cut-short deck file and got its response from the
\* site, in a process that found a cut-short card-type file and now asks the
\* card database
C17_Witness ==
    /\ \E i \in DOMAIN task :
        /\ task[i].seen.exists
        /\ UnreadableDeck(task[i].seen)
        /\ task[i].r # NoResponse
    /\ an[1].loaded.exists
    /\ UnreadableTypes(an[1].loaded)
    /\ an[1].pc = "sf_get"

(***************************************************************************)
(* Claims about fetch_edhrec_build_id, checked under SpecBuildId.          *)
(***************************************************************************)
\* a call before call k has returned a token
SucceededBefore(k) ==
    \E j \in 1..(k - 1) : b_calls[j].outcome.kind = "returned"
FirstToken ==
    b_calls[CHOOSE j \in 1..Len(b_calls) :
                /\ b_calls[j].outcome.kind = "returned"
                /\ ~SucceededBefore(j)].outcome.v

\* C18: once a call has returned a token, every later call returns the same
\* token with no request and no use of the rate limiter; a failed call
\* leaves no build id stored, so that the next call sends a request again.
C18_Memoized ==
    /\ \A k \in 1..Len(b_calls) :
        IF SucceededBefore(k)
        THEN /\ ~b_calls[k].waited
             /\ b_calls[k].r.status = NoResponse.status
             /\ b_calls[k].outcome.kind = "returned"
             /\ b_calls[k].outcome.v = FirstToken
        ELSE b_calls[k].waited /\ b_calls[k].r.status # NoResponse.status
    /\ IF SucceededBefore(Len(b_calls) + 1) THEN build_id = FirstToken
       ELSE build_id = None

\* a failed call, a call that tried again and got a token, and a call that
\* was answered from the stored token
C18_Witness ==
    /\ Len(b_calls) = 3
    /\ b_calls[1].outcome.kind = "raised"
    /\ b_calls[2].outcome.kind = "returned"
    /\ b_calls[2].waited
    /\ ~b_calls[3].waited

\* the reference of C19: the four cases of failure, read off the page
HasMarker(html) == \E i \in 1..Len(html) : html[i] = "M"
FirstMarker(html) ==
    CHOOSE i \in 1..Len(html) : html[i] = "M" /\ \A j \in 1..(i - 1) : html[j] # "M"
HasPrefix(html) == \E i \in 1..(FirstMarker(html) - 1) : html[i] = "S"
LastPrefix(html) ==
    CHOOSE i \in 1..(FirstMarker(html) - 1) :
        html[i] = "S" /\ \A j \in (i + 1)..(FirstMarker(html) - 1) : html[j] # "S"
\* the text after the prefix up to the next "/", or up to the marker when no
\* "/" comes before it
Segment(html) ==
    LET from == LastPrefix(html) + 1
        to == FirstMarker(html) - 1
        slashes == {i \in from..to : html[i] = "/"}
        stop == IF slashes = {} THEN to + 1
                ELSE CHOOSE i \in slashes : \A j \in slashes : i <= j
    IN  SubSeq(html, from, stop - 1)
FailCase(r) ==
    \/ r.status # 200
    \/ ~HasMarker(r.body)
    \/ ~HasPrefix(r.body)
    \/ Len(Segment(r.body)) < 5

\* C19: a call that sends its request fails, and stores no build id, when
\* the status is not 200, the marker is absent, the prefix does not occur
\* before the marker or the segment is shorter than 5 characters, and in no
\* other case.
C19_FailsExactlyThen ==
    \A k \in 1..Len(b_calls) :
        b_calls[k].waited =>
            /\ b_calls[k].outcome.kind = "raised" <=> FailCase(b_calls[k].r)
            /\ b_calls[k].outcome.kind = "raised" /\ k = Len(b_calls)
                => build_id = None

C20_Returned ==
    /\ m_table.r.status = 200
    /\ m_table.outcome.kind = "returned"
    /\ run_pc # "aborted"

(***************************************************************************)
(* Claims about the two rate limiters with a single caller, checked under  *)
(* SpecLimiter.                                                            *)
(***************************************************************************)
\* the step in which a wait returns: the timestamp of the service is written
EdhrecReturns == run_pc = "lim_edhrec" /\ run_pc' = "lim_idle"
ScryfallReturns == run_pc = "lim_scryfall" /\ run_pc' = "lim_idle"

\* C21: with a single caller, a wait returns only when at least the minimum
\* delay of its service has passed since the timestamp the previous wait for
\* that service wrote, and the timestamp it writes is at least the previous
\* one plus the minimum delay.
C21_SequentialWaitsSpaced ==
    [][/\ EdhrecReturns =>
            /\ now - last_edhrec_request >= EDHREC_MIN_DELAY
            /\ last_edhrec_request' >= last_edhrec_request + EDHREC_MIN_DELAY
       /\ ScryfallReturns =>
            /\ now - an[1].last_scryfall_request >= SCRYFALL_MIN_DELAY
            /\ an'[1].last_scryfall_request
                    >= an[1].last_scryfall_request + SCRYFALL_MIN_DELAY]_vars

\* an EDHREC wait that had to sleep has returned, less than two minimum
\* delays of the card database after a card-database wait
C21_Witness ==
    /\ run_pc = "lim_idle"
    /\ l_last = [service |-> "edhrec", slept |-> TRUE]
    /\ last_edhrec_request = now
    /\ an[1].last_scryfall_request > now - 2 * SCRYFALL_MIN_DELAY

\* a step of one of the two waits: it measures elapsed, or it returns
EdhrecStep ==
    \/ run_pc = "lim_idle" /\ run_pc' = "lim_edhrec"
    \/ EdhrecReturns
ScryfallStep ==
    \/ run_pc = "lim_idle" /\ run_pc' = "lim_scryfall"
    \/ ScryfallReturns

\* C22: the two rate limiters are independent.  A wait for the card
\* database leaves the EDHREC timestamp as it is and a wait for EDHREC
\* leaves the card-database timestamp as it is, and a wait sleeps exactly
\* when the last request to its own service is less than its minimum delay
\* ago, however recent the last request to the other service is.
C22_LimitersIndependent ==
    [][/\ EdhrecStep
            => an'[1].last_scryfall_request = an[1].last_scryfall_request
       /\ ScryfallStep
            => last_edhrec_request' = last_edhrec_request
       /\ run_pc = "lim_idle" /\ run_pc' = "lim_edhrec" =>
            (m_wake' > now <=> now - last_edhrec_request < EDHREC_MIN_DELAY)
       /\ run_pc = "lim_idle" /\ run_pc' = "lim_scryfall" =>
            (m_wake' > now <=>
                now - an[1].last_scryfall_request < SCRYFALL_MIN_DELAY)]_vars

\* a card-database wait that need not sleep, right after an EDHREC request
C22_Witness ==
    /\ run_pc = "lim_scryfall"
    /\ l_last = [service |-> "scryfall", slept |-> FALSE]
    /\ last_edhrec_request = now

(***************************************************************************)
(* Claims about the deck cache and the download workers, checked under     *)
(* Spec.                                                                   *)
(***************************************************************************)
\* the cache file of h holds a deck body
HoldsBody(h) ==
    /\ deck_cache[h].exists
    /\ json_load(deck_cache[h].text).ok
    /\ json_load(deck_cache[h].text).v.t = "list"

\* C23: once the deck cache holds a body for hash h, no step of any worker
\* changes or removes that body, and no deck-detail request for h is sent
\* any more, also when h occurs more than once in the hash list.
C23_CachedImmutable ==
    [][\A h \in DOMAIN deck_cache :
        HoldsBody(h) =>
            /\ deck_cache'[h] = deck_cache[h]
            /\ \A i \in DOMAIN task :
                deck_hashes[i] = h =>
                    ~(task[i].pc = "rl_sleep" /\ task'[i].pc = "get")]_vars

(***************************************************************************)
(* Claim about the card lookups of one process, checked under SpecRun.     *)
(***************************************************************************)
\* the card-database requests in flight
CardInFlight == {a \in Analyzers : an[a].pc = "sf_get"}

\* the step that sends a card-database request
CardRequestSent(a) == an[a].pc # "sf_get" /\ an'[a].pc = "sf_get"

\* C24: the card lookups run one at a time.  At most one card-database
\* request is in flight; the step that sends one has passed the card-database
\* rate limiter (the timestamp is written); it is a step of the main thread
\* after the download (no worker thread takes a step in it, none is running).
C24_OneLookupAtATime ==
    [][/\ Cardinality(CardInFlight) <= 1
       /\ \A a \in Analyzers :
            CardRequestSent(a) =>
                /\ an'[a].last_scryfall_request = now
                /\ task' = task
                /\ run_pc = "classify"
                /\ \A i \in DOMAIN task : task[i].pc = "done"]_vars

\* a card-database request is in flight after a download that ran workers
C24_Witness ==
    /\ Cardinality(CardInFlight) = 1
    /\ an[1].last_scryfall_request = now
    /\ Len(deck_hashes) = 2
    /\ \A i \in DOMAIN task : task[i].pc = "done" /\ task[i].r # NoResponse

(***************************************************************************)
(* Claim about the streaming download, checked under SpecStream.           *)
(***************************************************************************)
\* C25: the streaming download yields one triple per completed fetch: N
\* triples for N hashes when it ends, the total N in each, the completed
\* count 1, 2, ..., N in this order, and a deck or absent as third part.
C25_OneTriplePerCompletion ==
    /\ Len(yielded) = Cardinality(collected)
    /\ \A k \in 1..Len(yielded) :
        /\ yielded[k].completed = k
        /\ yielded[k].total = Len(deck_hashes)
        /\ yielded[k].deck.t \in {"list", "None"}
    /\ FdpReturned => Len(yielded) = Len(deck_hashes)

\* the download of two hashes has ended, one fetch reported as absent and
\* one with its deck
C25_Witness ==
    /\ FdpReturned
    /\ Len(yielded) = 2
    /\ \E k \in 1..2 : yielded[k].deck.t = "None"
    /\ \E k \in 1..2 : yielded[k].deck.t = "list"

(***************************************************************************)
(* Claim about the text fetch_edhrec_build_id extracts, checked under      *)
(* SpecBuildId.                                                            *)
(***************************************************************************)
\* C26: a token that fetch_edhrec_build_id returns after its request is the
\* text between the last "/_next/static/" before the first
\* "_buildManifest.js" and the next "/" behind that prefix; when no "/" lies
\* between the prefix and the marker it is still that whole text, not a
\* shortened one.
C26_TokenIsSegment ==
    \A k \in 1..Len(b_calls) :
        b_calls[k].waited /\ b_calls[k].outcome.kind = "returned" =>
            b_calls[k].outcome.v.v = Segment(b_calls[k].r.body)

(***************************************************************************)
(* Claims about the steps of fetch_deck_by_hash and about the build id     *)
(* under concurrent workers, checked under Spec.                           *)
(***************************************************************************)
\* the steps a call of fetch_deck_by_hash may take from each of its places
StepsInOrder(i) ==
    \/ task'[i].pc = task[i].pc
    \/ task[i].pc = "queued" /\ task'[i].pc \in {"done", "bid_enter", "rl"}
    \/ task[i].pc = "bid_enter" /\ task'[i].pc \in {"bid_rl", "rl"}
    \/ task[i].pc = "bid_rl" /\ task'[i].pc = "bid_sleep"
    \/ task[i].pc = "bid_sleep" /\ task'[i].pc = "bid_get"
    \/ task[i].pc = "bid_get" /\ task'[i].pc \in {"rl", "done"}
    \/ task[i].pc = "rl" /\ task'[i].pc = "rl_sleep"
    \/ task[i].pc = "rl_sleep" /\ task'[i].pc = "get"
    \/ task[i].pc = "get" /\ task'[i].pc \in {"save", "done"}
    \/ task[i].pc = "save" /\ task'[i].pc = "done"

\* a request is sent: by worker i (homepage or deck detail), by the main
\* thread (homepage or deck table)
WorkerSends(i) == task[i].pc # task'[i].pc /\ task'[i].pc \in {"bid_get", "get"}
MainSends == run_pc # run_pc' /\ run_pc' \in {"bid_get", "tab_get"}

\* C27: on a cache miss fetch_deck_by_hash resolves the build id if none is
\* stored, then passes the EDHREC rate limiter, then sends the deck-detail
\* GET, then writes the cache file, then returns the deck, all in the calling
\* thread; and every EDHREC request (homepage, deck table, deck detail) is
\* sent by the step in which its caller leaves the EDHREC rate limiter.
C27_StepsInOrder ==
    [][/\ \A i \in DOMAIN task :
            DOMAIN task' = DOMAIN task =>
                /\ StepsInOrder(i)
                \* the build id is resolved before the rate-limit wait
                /\ task'[i].pc = "rl" => truthy(build_id')
                \* a request leaves the rate limiter of its own caller
                /\ WorkerSends(i) =>
                    /\ Sleeping(i)
                    /\ now >= task[i].wake
                    /\ last_edhrec_request' = now
                \* the response of a miss is written to the file, then returned
                /\ /\ task[i].pc # "done" /\ task'[i].pc = "done"
                   /\ task'[i].r # NoResponse
                   /\ task'[i].outcome.kind = "returned"
                   /\ task'[i].outcome.v.t = "list"
                   => /\ task[i].pc = "save"
                      /\ deck_cache'[deck_hashes[i]].exists
                      /\ Len(deck_cache'[deck_hashes[i]].text)
                            >= Len(json_dump(task'[i].outcome.v))
                      /\ SubSeq(deck_cache'[deck_hashes[i]].text, 1,
                                Len(json_dump(task'[i].outcome.v)))
                            = json_dump(task'[i].outcome.v)
       /\ MainSends =>
            /\ run_pc \in {"bid_sleep", "tab_sleep"}
            /\ now >= m_wake
            /\ last_edhrec_request' = now]_vars

\* a worker that missed the cache has resolved the build id, fetched its
\* deck, written it and returned it
C27_Witness ==
    \E i \in DOMAIN task :
        /\ task[i].pc = "done"
        /\ task[i].roots = 1
        /\ task[i].r.status = 200
        /\ task[i].outcome.kind = "returned"
        /\ task[i].outcome.v.t = "list"
        /\ deck_cache[deck_hashes[i]].exists
\* the workers that have sent a homepage request
RootRequesters == {i \in DOMAIN task : task[i].roots > 0}

\* C28: the build id is discovered at most once per process.  When
\* fetch_decks_parallel starts with no build id stored, the workers that miss
\* the cache send at most one homepage request between them, and all use the
\* same build id in their deck-detail URLs.
C28_DiscoveredOnce ==
    /\ Cardinality(RootRequesters) <= 1
    /\ \A i \in DOMAIN task : task[i].roots <= 1
    /\ \A i, j \in DOMAIN task :
        task[i].url_bid.t = "str" /\ task[j].url_bid.t = "str"
            => task[i].url_bid.v = task[j].url_bid.v
\* worker i returns from a call that missed the cache
Returns29(i) == task[i].pc \notin {"queued", "done"} /\ task'[i].pc = "done"

\* the call of worker i has fetched a deck: status 200 and the deck found
Fetched(i) ==
    /\ task[i].pc = "save"
    /\ task[i].r.status = 200
    /\ deck_of_body(task[i].r.body).ok
    /\ task[i].deck = deck_of_body(task[i].r.body).v

\* C29: the deck cache records exactly the successful fetches.  A body that
\* comes to be in the file of h is the body a successful deck-detail request
\* for h returned; a successful fetch of h has its body in the file when it
\* returns; a failed fetch (status not 200, malformed body, no build id)
\* leaves the cache as it is.
C29_CacheRecordsSuccesses ==
    [][/\ \A h \in DOMAIN deck_cache :
            deck_cache'[h] # deck_cache[h] /\ json_load(deck_cache'[h].text).ok
                => \E i \in DOMAIN task :
                        /\ deck_hashes[i] = h
                        /\ Fetched(i)
                        /\ json_load(deck_cache'[h].text).v = task[i].deck
       /\ \A i \in DOMAIN task :
            DOMAIN task' = DOMAIN task /\ Returns29(i) =>
                IF Fetched(i)
                THEN deck_cache'[deck_hashes[i]] = File(json_dump(task[i].deck))
                ELSE deck_cache' = deck_cache]_vars

(***************************************************************************)
(* Claim about termination, checked under SpecFair.                        *)
(***************************************************************************)
\* C30: fetch_decks_parallel terminates.  When every request is answered
\* and the threads are scheduled fairly, a call that has begun eventually
\* returns, every submitted fetch completed and no worker running.
C30_FdpTerminates ==
    run_pc \in {"fdp_call", "collect"}
        ~> (FdpReturned /\ \A i \in DOMAIN task : task[i].pc = "done")

\* a call over two hashes has returned although one fetch raised and
\* the other had to sleep in the rate limiter before its request
C30_Witness ==
    /\ FdpReturned
    /\ DOMAIN task = 1..2
    /\ \E i \in DOMAIN task : task[i].outcome.kind = "raised"
    /\ \E i \in DOMAIN task : task[i].r.status = 200

(***************************************************************************)
(* Claim about the empty hash list, checked under SpecCall.                *)
(***************************************************************************)
\* C31: for an empty hash list fetch_decks_parallel, of the class and of
\* the script alike, returns an empty sequence: it does not raise, makes no
\* worker pool, sends no request and passes no rate limiter.
C31_EmptyListReturnsEmpty ==
    [][run_pc = "fdp_call" /\ deck_hashes = <<>> /\ run_pc' # run_pc =>
        /\ run_pc' = "save_decklists"
        /\ all_decks' = <<>>
        /\ task' = <<>>
        /\ max_workers' = 0
        /\ last_edhrec_request' = last_edhrec_request
        /\ m_wake' = m_wake]_vars

====
